---- MODULE Spec2Model ----
(***************************************************************************)
(* Model of the Sendspin audio output path of Harmonixia-GTK:              *)
(*   music_assistant/audio_pipeline.py  (class AudioPipeline)              *)
(*   music_assistant/output_handlers.py (on_sendspin_* handlers and the    *)
(*                                       delayed pipeline teardown)        *)
(*                                                                         *)
(* The AudioPipeline object is the record ap, one field per attribute.     *)
(* Every method is an operator from the object (and the call's arguments)  *)
(* to the object after the call, so that a handler that calls several      *)
(* methods in a row is the composition of their operators.                 *)
(*                                                                         *)
(* Encodings: Python None is the empty tuple and a set value v is <<v>>;   *)
(* float volumes are percents (0.65 is 65); EQ gains, frequencies and      *)
(* bandwidths are integers; a chunk of bytes is its length.                *)
(***************************************************************************)
EXTENDS Integers, Sequences, FiniteSets, TLC

VARIABLES
    ap,                              \* the AudioPipeline object
    sendspin_pipeline_teardown_id,   \* app.sendspin_pipeline_teardown_id
    glib_sources,                    \* GLib timeout sources still pending
    glib_next_id,                    \* next source id GLib hands out
    lastOp,                          \* the call or event handled last, with its arguments
    trip,                            \* observer of configure / disable / enable sequences
    eq_snapshot,                     \* the dict get_eq_state returned last, as its caller holds it
    preset_cache,                    \* eq_presets._preset_cache
    cache_file,                      \* the file at _get_cache_path()
    chunk_call,                      \* the on_sendspin_audio_chunk call in progress
    loaders,                         \* the threads running _refresh_eq_presets_on_open
    om                               \* the OutputManager object and its load workers

vars == <<ap, sendspin_pipeline_teardown_id, glib_sources, glib_next_id, lastOp, trip,
          eq_snapshot, preset_cache, cache_file, chunk_call, loaders, om>>

---------------------------------------------------------------------------
(* Option values *)

None == <<>>

Some(v) == <<v>>

IsSet(o) == o # <<>>

Val(o) == o[1]

Min(a, b) == IF a < b THEN a ELSE b

Max(a, b) == IF a > b THEN a ELSE b

Abs(a) == IF a < 0 THEN -a ELSE a

---------------------------------------------------------------------------
(* Bounds of the exploration *)

\* chunks submitted to one source stage between two flushes (SpecSeq)
MaxChunks == 3

\* the same, where chunks only serve to set the timeline (Spec)
LifeChunks == 2

\* teardown timers scheduled in one run
MaxTimers == 2

\* entries of a supported-formats list given to the Format Negotiator
MaxSupported == 3

---------------------------------------------------------------------------
(* Program constants *)

DefaultVolume == 65

DefaultNumBands == 10

MinBands == 1

MaxBands == 64

MinGain == -24

MaxGain == 12

NsPerSecond == 1000000000

PCM(rate, depth, ch) == [sample_rate |-> rate, bit_depth |-> depth, channels |-> ch]

AudioPipelineInit ==
    [ pipeline |-> None, appsrc |-> None, volume_element |-> None,
      eq_element |-> None, stream_format |-> None, stream_start_ts |-> None,
      last_pts_ns |-> None, bytes_per_sample_override |-> None, bus |-> None,
      volume |-> DefaultVolume, muted |-> FALSE, eq_enabled |-> FALSE,
      eq_num_bands |-> DefaultNumBands, eq_band_configs |-> <<>> ]

\* no audio-chunk handler is running
NoCall == [pc |-> "idle"]

LoaderThreads == { "t1", "t2" }

\* no loader thread has been started
NoLoaders == [t \in LoaderThreads |-> [pc |-> "idle"]]

\* OutputManager.__init__; workers is the number of threads running
\* _load_output_targets_worker
OutputManagerInit ==
    [ output_loading |-> FALSE, status_message |-> "", output_targets |-> <<>>,
      refresh_pending |-> FALSE, refresh_after_load |-> FALSE, workers |-> 0 ]

---------------------------------------------------------------------------
(* Format Negotiator *)

KeyLess_RateOnly(k1, k2) == k1[1] < k2[1]

\* Python's tuple order on the keys (|rate - stream_rate|, -depth)
KeyLess(k1, k2) == k1[1] < k2[1] \/ (k1[1] = k2[1] /\ k1[2] < k2[2])

PickKey(stream_rate, entry) == <<Abs(entry[1] - stream_rate), -entry[2]>>

RECURSIVE PickLoop(_, _, _, _)
PickLoop(stream_rate, supported, i, best) ==
    IF i > Len(supported) THEN best
    ELSE IF best = None
            \/ KeyLess(PickKey(stream_rate, supported[i]), PickKey(stream_rate, Val(best)))
         THEN PickLoop(stream_rate, supported, i + 1, Some(supported[i]))
         ELSE PickLoop(stream_rate, supported, i + 1, best)

pick_output_format(format_info, supported_formats) ==
    IF supported_formats = <<>> THEN None
    ELSE PickLoop(format_info.sample_rate, supported_formats, 1, None)

---------------------------------------------------------------------------
(* Sample width and caps *)

get_bytes_per_sample_IgnoresOverride(a, format_info) ==
    Max(1, format_info.bit_depth \div 8)

get_bytes_per_sample(a, format_info) ==
    IF format_info.bit_depth = 24 /\ IsSet(a.bytes_per_sample_override)
    THEN Val(a.bytes_per_sample_override)
    ELSE Max(1, format_info.bit_depth \div 8)

get_frame_size(a, format_info) ==
    format_info.channels * get_bytes_per_sample(a, format_info)

get_gst_pcm_format(bit_depth, bytes_per_sample) ==
    IF bit_depth = 16 THEN "S16LE"
    ELSE IF bit_depth = 24
         THEN (IF bytes_per_sample = 4 THEN "S24_32LE" ELSE "S24LE")
         ELSE IF bit_depth = 32 THEN "S32LE" ELSE "S16LE"

build_pcm_caps(a, format_info) ==
    [ format |-> get_gst_pcm_format(format_info.bit_depth,
                                    get_bytes_per_sample(a, format_info)),
      channels |-> format_info.channels,
      rate |-> format_info.sample_rate ]

update_caps(a, format_info) ==
    IF ~IsSet(a.appsrc) THEN a
    ELSE [a EXCEPT !.appsrc = Some([Val(a.appsrc) EXCEPT !.caps = build_pcm_caps(a, format_info)])]

---------------------------------------------------------------------------
(* Volume stage *)

apply_volume(a) ==
    IF ~IsSet(a.volume_element) THEN a
    ELSE [a EXCEPT !.volume_element =
            Some([Val(a.volume_element) EXCEPT !.volume = a.volume, !.mute = a.muted])]

set_volume(a, volume) ==
    apply_volume([a EXCEPT !.volume = Max(0, Min(100, volume))])

set_muted(a, muted) ==
    apply_volume([a EXCEPT !.muted = muted])

---------------------------------------------------------------------------
(* Equalizer stage (GStreamer equalizer-nbands, as this code drives it).   *)
(* The element owns one child per band.  Writing num-bands keeps the gain  *)
(* of every band that survives, creates the new ones with gain 0, and      *)
(* recomputes the centre frequency and width of all of them (value 0 here  *)
(* stands for "computed by the element").                                  *)

DefaultBand == [freq |-> 0, bandwidth |-> 0, gain |-> 0]

NewEqElement == [bands |-> [i \in 1..DefaultNumBands |-> DefaultBand]]

SetNumBands(el, n) ==
    [el EXCEPT !.bands =
        [i \in 1..n |-> IF i <= Len(el.bands)
                        THEN [DefaultBand EXCEPT !.gain = el.bands[i].gain]
                        ELSE DefaultBand]]

ZeroGains_Noop(el, n) == el

\* the disabled branch: gain 0 on every child index in range(eq_num_bands)
ZeroGains(el, n) ==
    [el EXCEPT !.bands =
        [i \in 1..Len(el.bands) |-> IF i <= n THEN [el.bands[i] EXCEPT !.gain = 0]
                                    ELSE el.bands[i]]]

WriteBands_Noop(el, configs, n) == el

\* the enabled branch: enumerate(eq_band_configs[:eq_num_bands])
WriteBands(el, configs, n) ==
    [el EXCEPT !.bands =
        [i \in 1..Len(el.bands) |-> IF i <= Min(Len(configs), n)
                                    THEN [freq |-> configs[i].freq,
                                          bandwidth |-> configs[i].bandwidth,
                                          gain |-> configs[i].gain]
                                    ELSE el.bands[i]]]

apply_eq_config(a) ==
    IF ~IsSet(a.eq_element) THEN a
    ELSE LET el == SetNumBands(Val(a.eq_element), a.eq_num_bands)
         IN  [a EXCEPT !.eq_element =
                Some(IF ~a.eq_enabled
                     THEN ZeroGains(el, a.eq_num_bands)
                     ELSE WriteBands(el, a.eq_band_configs, a.eq_num_bands))]

set_eq_enabled_ErasesOnDisable(a, enabled) ==
    apply_eq_config([a EXCEPT !.eq_enabled = enabled,
                              !.eq_band_configs = IF enabled THEN @ ELSE <<>>])

set_eq_enabled(a, enabled) ==
    apply_eq_config([a EXCEPT !.eq_enabled = enabled])

(* A band count argument is [ok |-> TRUE, v |-> n] when int() accepts it    *)
(* and [ok |-> FALSE] when int() raises.  A band configuration is           *)
(* [kind |-> "dict", freq, bandwidth, gain] (a missing key is its default   *)
(* 0), [kind |-> "badnum"] for a dict whose value float() rejects, or       *)
(* [kind |-> "nondict"].  float() also returns NaN (for float("nan") or the *)
(* string "nan"): a dict holding such values has a fourth field nan, the    *)
(* set of its keys whose value is NaN, and 0 stands in the key's own field. *)
(* Every comparison with NaN is false.  A band of a BandConfigList holds    *)
(* its bandwidth as the quotient [num, den], den > 0, that freq / q_value   *)
(* is: such a dict has the field quotient, the set of its keys whose value  *)
(* is a quotient.                                                           *)

NaNKeys(config) == IF "nan" \in DOMAIN config THEN config.nan ELSE {}

QuotientKeys(config) == IF "quotient" \in DOMAIN config THEN config.quotient ELSE {}

\* a number with the sign of the float under the key
FloatSign(config, key) ==
    IF key \in QuotientKeys(config) THEN config[key].num ELSE config[key]

\* value <= 0.0 in floats
FloatLeqZero(config, key) == key \notin NaNKeys(config) /\ FloatSign(config, key) <= 0

\* value < lo or value > hi in floats
FloatOutside(config, key, lo, hi) ==
    key \notin NaNKeys(config) /\ (config[key] < lo \/ config[key] > hi)

ConfigAccepted(config) ==
    /\ config.kind = "dict"
    /\ ~(FloatLeqZero(config, "freq") \/ FloatLeqZero(config, "bandwidth"))

ValidatedBand(config) ==
    LET gain == IF FloatOutside(config, "gain", MinGain, MaxGain)
                THEN Max(MinGain, Min(MaxGain, config.gain))
                ELSE config.gain
        band == [freq |-> config.freq, bandwidth |-> config.bandwidth, gain |-> gain]
        marked == IF QuotientKeys(config) = {} THEN band
                  ELSE [freq |-> band.freq, bandwidth |-> band.bandwidth,
                        gain |-> band.gain, quotient |-> config.quotient]
    IN  IF NaNKeys(config) = {} THEN marked
        ELSE IF QuotientKeys(config) = {}
        THEN [freq |-> band.freq, bandwidth |-> band.bandwidth, gain |-> band.gain,
              nan |-> config.nan]
        ELSE [freq |-> band.freq, bandwidth |-> band.bandwidth, gain |-> band.gain,
              nan |-> config.nan, quotient |-> config.quotient]

RECURSIVE ValidateLoop(_, _, _, _)
ValidateLoop(band_configs, num_bands, i, validated) ==
    IF i > Len(band_configs) \/ Len(validated) >= num_bands THEN validated
    ELSE IF ConfigAccepted(band_configs[i])
         THEN ValidateLoop(band_configs, num_bands, i + 1,
                           Append(validated, ValidatedBand(band_configs[i])))
         ELSE ValidateLoop(band_configs, num_bands, i + 1, validated)

ClampBands(n) == Max(MinBands, Min(MaxBands, n))

configure_eq_bands(a, num_bands, band_configs) ==
    IF ~num_bands.ok THEN a
    ELSE LET n == ClampBands(num_bands.v)
             stored == [a EXCEPT !.eq_num_bands = n,
                                 !.eq_band_configs = ValidateLoop(band_configs, n, 1, <<>>)]
         IN  IF IsSet(a.pipeline) THEN apply_eq_config(stored) ELSE stored

(* The dict get_eq_state returns is state, with shared telling which of its  *)
(* objects are the object's own: "list" when band_configs is the very list   *)
(* eq_band_configs (and so holds the same dicts), "bands" when it is another *)
(* list holding the same dicts, "none" when list and dicts are new objects.  *)

get_eq_state_SameList(a) ==
    [ state |-> [enabled |-> a.eq_enabled, num_bands |-> a.eq_num_bands,
                 band_configs |-> a.eq_band_configs],
      shared |-> "list" ]

\* lines 516-523: a new list of config.copy() for each stored config
get_eq_state(a) ==
    [ state |-> [enabled |-> a.eq_enabled, num_bands |-> a.eq_num_bands,
                 band_configs |-> a.eq_band_configs],
      shared |-> "none" ]

\* lines 445, 473-477: configure_eq_bands binds eq_band_configs to a new list
\* of new dicts, so a dict returned earlier shares nothing with it any more
AfterRebind(snapshot, rebound) ==
    IF snapshot = None \/ ~rebound THEN snapshot
    ELSE Some([Val(snapshot) EXCEPT !.shared = "none"])

---------------------------------------------------------------------------
(* Processing graph.  A create_pipeline call is given, besides its own     *)
(* arguments, what its collaborators answer during the call:               *)
(*   sink_given   whether the caller passed a sink element;                *)
(*   supported    the list get_supported_formats() returns;                *)
(*   avail        the stages Gst.ElementFactory.make / Gst.Pipeline.new    *)
(*                return an element for (any other comes back None).       *)

Stages ==
    { "pipeline", "appsrc", "queue", "audioconvert", "volume", "equalizer",
      "autoaudiosink", "audioresample", "capsfilter", "post_convert" }

\* a graph object distinct from the one it replaces
NewGraphId(a) == IF IsSet(a.pipeline) THEN 3 - Val(a.pipeline).id ELSE 1

destroy_pipeline_KeepsOverride(a) ==
    IF ~IsSet(a.pipeline) THEN a
    ELSE [a EXCEPT !.pipeline = None, !.appsrc = None, !.volume_element = None,
                   !.eq_element = None, !.stream_format = None,
                   !.stream_start_ts = None, !.last_pts_ns = None, !.bus = None]

destroy_pipeline_KeepsTimeline(a) ==
    IF ~IsSet(a.pipeline) THEN a
    ELSE [a EXCEPT !.pipeline = None, !.appsrc = None, !.volume_element = None,
                   !.eq_element = None, !.stream_format = None,
                   !.bytes_per_sample_override = None, !.bus = None]

destroy_pipeline(a) ==
    IF ~IsSet(a.pipeline) THEN a
    ELSE [a EXCEPT !.pipeline = None, !.appsrc = None, !.volume_element = None,
                   !.eq_element = None, !.stream_format = None,
                   !.stream_start_ts = None, !.last_pts_ns = None,
                   !.bytes_per_sample_override = None, !.bus = None]

LinkedStages_NoResample(has_queue, has_volume, has_eq, has_post, has_resample, has_caps) ==
    <<"appsrc">>
    \o (IF has_queue THEN <<"queue">> ELSE <<>>)
    \o <<"audioconvert">>
    \o (IF has_volume THEN <<"volume">> ELSE <<>>)
    \o (IF has_eq THEN <<"equalizer">> ELSE <<>>)
    \o (IF has_post THEN <<"post_convert">> ELSE <<>>)
    \o (IF has_caps THEN <<"capsfilter">> ELSE <<>>)
    \o <<"sink">>

LinkedStages_PostWithCaps(has_queue, has_volume, has_eq, has_post, has_resample, has_caps) ==
    <<"appsrc">>
    \o (IF has_queue THEN <<"queue">> ELSE <<>>)
    \o <<"audioconvert">>
    \o (IF has_volume THEN <<"volume">> ELSE <<>>)
    \o (IF has_eq THEN <<"equalizer">> ELSE <<>>)
    \o (IF has_caps THEN <<"post_convert">> ELSE <<>>)
    \o (IF has_resample THEN <<"audioresample">> ELSE <<>>)
    \o (IF has_caps THEN <<"capsfilter">> ELSE <<>>)
    \o <<"sink">>

LinkedStages_CapsOnlyWithResample(has_queue, has_volume, has_eq, has_post, has_resample, has_caps) ==
    <<"appsrc">>
    \o (IF has_queue THEN <<"queue">> ELSE <<>>)
    \o <<"audioconvert">>
    \o (IF has_volume THEN <<"volume">> ELSE <<>>)
    \o (IF has_eq THEN <<"equalizer">> ELSE <<>>)
    \o (IF has_post THEN <<"post_convert">> ELSE <<>>)
    \o (IF has_resample THEN <<"audioresample">> ELSE <<>>)
    \o (IF has_caps /\ has_resample THEN <<"capsfilter">> ELSE <<>>)
    \o <<"sink">>

\* the chain of linked stages, source first
LinkedStages(has_queue, has_volume, has_eq, has_post, has_resample, has_caps) ==
    <<"appsrc">>
    \o (IF has_queue THEN <<"queue">> ELSE <<>>)
    \o <<"audioconvert">>
    \o (IF has_volume THEN <<"volume">> ELSE <<>>)
    \o (IF has_eq THEN <<"equalizer">> ELSE <<>>)
    \o (IF has_post THEN <<"post_convert">> ELSE <<>>)
    \o (IF has_resample THEN <<"audioresample">> ELSE <<>>)
    \o (IF has_caps THEN <<"capsfilter">> ELSE <<>>)
    \o <<"sink">>

\* lines 121-135: the three checks that abandon the build
BuildAborts_NoCapsCheck(has_pipeline, has_appsrc, has_convert, has_sink, use_resample, has_resample, output_format, has_caps) ==
    \/ ~has_pipeline \/ ~has_appsrc \/ ~has_convert \/ ~has_sink
    \/ use_resample /\ ~has_resample

BuildAborts(has_pipeline, has_appsrc, has_convert, has_sink, use_resample, has_resample, output_format, has_caps) ==
    \/ ~has_pipeline \/ ~has_appsrc \/ ~has_convert \/ ~has_sink
    \/ use_resample /\ ~has_resample
    \/ IsSet(output_format) /\ ~has_caps

SameFormatActive(a, format_info) ==
    /\ IsSet(a.stream_format)
    /\ IsSet(a.pipeline)
    /\ IsSet(a.appsrc)
    /\ Val(a.stream_format) = format_info

BuildPipeline(a, format_info, sink_given, supported, avail, volume, muted) ==
    LET d == destroy_pipeline(a)
        id == NewGraphId(a)
        has_eq == "equalizer" \in avail
        has_volume == "volume" \in avail
        output_format == IF sink_given /\ supported # <<>>
                         THEN pick_output_format(format_info, supported)
                         ELSE None
        has_sink == sink_given \/ "autoaudiosink" \in avail
        target_rate == IF IsSet(output_format) THEN Val(output_format)[1]
                       ELSE format_info.sample_rate
        target_bit_depth == IF IsSet(output_format) THEN Val(output_format)[2]
                            ELSE format_info.bit_depth
        use_resample == target_rate # format_info.sample_rate
        has_resample == use_resample /\ "audioresample" \in avail
        has_caps == IsSet(output_format) /\ "capsfilter" \in avail
        has_post == IsSet(output_format) /\ has_eq /\ "post_convert" \in avail
    IN  IF BuildAborts("pipeline" \in avail, "appsrc" \in avail, "audioconvert" \in avail,
                       has_sink, use_resample, has_resample, output_format, has_caps)
        THEN d
        ELSE LET built ==
                   [d EXCEPT
                      !.pipeline = Some([ id |-> id,
                                          stages |-> LinkedStages("queue" \in avail, has_volume,
                                                                  has_eq, has_post, has_resample,
                                                                  has_caps),
                                          output_caps |->
                                              IF has_caps
                                              THEN Some([format |-> get_gst_pcm_format(target_bit_depth, 0),
                                                         channels |-> format_info.channels,
                                                         rate |-> target_rate])
                                              ELSE None ]),
                      !.appsrc = Some([id |-> id, caps |-> build_pcm_caps(d, format_info),
                                       buffers |-> <<>>]),
                      !.volume_element = IF has_volume
                                         THEN Some([volume |-> 100, mute |-> FALSE])
                                         ELSE None,
                      !.eq_element = IF has_eq THEN Some(NewEqElement) ELSE None,
                      !.bus = Some(id),
                      !.stream_format = Some(format_info),
                      !.stream_start_ts = None,
                      !.last_pts_ns = None]
             IN  apply_eq_config(set_muted(set_volume(built, volume), muted))

create_pipeline_AlwaysRebuilds(a, format_info, sink_given, supported, avail, volume, muted) ==
    BuildPipeline(a, format_info, sink_given, supported, avail, volume, muted)

create_pipeline(a, format_info, sink_given, supported, avail, volume, muted) ==
    IF SameFormatActive(a, format_info)
    THEN set_muted(set_volume(a, volume), muted)
    ELSE BuildPipeline(a, format_info, sink_given, supported, avail, volume, muted)

is_active(a) == IsSet(a.pipeline) /\ IsSet(a.appsrc)

flush_KeepsLastPts(a) ==
    IF ~IsSet(a.appsrc) THEN a
    ELSE [a EXCEPT !.stream_start_ts = None,
                   !.appsrc = Some([Val(a.appsrc) EXCEPT !.buffers = <<>>])]

\* the flush events empty the source stage's queue
flush(a) ==
    IF ~IsSet(a.appsrc) THEN a
    ELSE [a EXCEPT !.stream_start_ts = None, !.last_pts_ns = None,
                   !.appsrc = Some([Val(a.appsrc) EXCEPT !.buffers = <<>>])]

---------------------------------------------------------------------------
(* Timestamp Sequencer and Sample Width Detector *)

\* int(sample_count / sample_rate * 1_000_000_000), without leaving 32 bits
DurationNs(sample_count, sample_rate) ==
    sample_count * (NsPerSecond \div sample_rate)
    + (sample_count * (NsPerSecond % sample_rate)) \div sample_rate

SubmitChunk_NoRepair(a, timestamp_us, len, format_info, frame_size) ==
    LET sample_count == len \div frame_size
        duration_ns == DurationNs(sample_count, format_info.sample_rate)
        start == IF a.stream_start_ts = None THEN timestamp_us ELSE Val(a.stream_start_ts)
        pts_ns == Max(0, (timestamp_us - start) * 1000)
        buffer == [pts |-> pts_ns, dts |-> pts_ns, duration |-> duration_ns, size |-> len]
    IN  [a EXCEPT !.stream_start_ts = Some(start),
                  !.last_pts_ns = Some(pts_ns),
                  !.appsrc = Some([Val(a.appsrc) EXCEPT !.buffers = Append(@, buffer)])]

SubmitChunk_StrictRepair(a, timestamp_us, len, format_info, frame_size) ==
    LET sample_count == len \div frame_size
        duration_ns == DurationNs(sample_count, format_info.sample_rate)
        start == IF a.stream_start_ts = None THEN timestamp_us ELSE Val(a.stream_start_ts)
        raw == Max(0, (timestamp_us - start) * 1000)
        pts_ns == IF IsSet(a.last_pts_ns) /\ raw < Val(a.last_pts_ns)
                  THEN Val(a.last_pts_ns) + duration_ns
                  ELSE raw
        buffer == [pts |-> pts_ns, dts |-> pts_ns, duration |-> duration_ns, size |-> len]
    IN  [a EXCEPT !.stream_start_ts = Some(start),
                  !.last_pts_ns = Some(pts_ns),
                  !.appsrc = Some([Val(a.appsrc) EXCEPT !.buffers = Append(@, buffer)])]

\* lines 313-326: stamp the chunk and hand it to the source stage
SubmitChunk(a, timestamp_us, len, format_info, frame_size) ==
    LET sample_count == len \div frame_size
        duration_ns == DurationNs(sample_count, format_info.sample_rate)
        start == IF a.stream_start_ts = None THEN timestamp_us ELSE Val(a.stream_start_ts)
        raw == Max(0, (timestamp_us - start) * 1000)
        pts_ns == IF IsSet(a.last_pts_ns) /\ raw <= Val(a.last_pts_ns)
                  THEN Val(a.last_pts_ns) + duration_ns
                  ELSE raw
        buffer == [pts |-> pts_ns, dts |-> pts_ns, duration |-> duration_ns, size |-> len]
    IN  [a EXCEPT !.stream_start_ts = Some(start),
                  !.last_pts_ns = Some(pts_ns),
                  !.appsrc = Some([Val(a.appsrc) EXCEPT !.buffers = Append(@, buffer)])]

push_audio_RejectClearsOverride(a, timestamp_us, len, format_info) ==
    IF ~IsSet(a.appsrc) THEN a
    ELSE LET frame_size == get_frame_size(a, format_info)
             packed_frame == format_info.channels * 3
             aligned_frame == format_info.channels * 4
         IN  IF frame_size <= 0 THEN a
             ELSE IF len % frame_size = 0
                  THEN SubmitChunk(a, timestamp_us, len, format_info, frame_size)
             ELSE IF format_info.bit_depth # 24 THEN a
             ELSE IF len % aligned_frame = 0
                  THEN SubmitChunk(
                         IF a.bytes_per_sample_override # Some(4)
                         THEN update_caps([a EXCEPT !.bytes_per_sample_override = Some(4)],
                                          format_info)
                         ELSE a,
                         timestamp_us, len, format_info, aligned_frame)
             ELSE IF IsSet(a.bytes_per_sample_override) /\ len % packed_frame = 0
                  THEN SubmitChunk(
                         update_caps([a EXCEPT !.bytes_per_sample_override = None], format_info),
                         timestamp_us, len, format_info, packed_frame)
             ELSE update_caps([a EXCEPT !.bytes_per_sample_override = None], format_info)

push_audio(a, timestamp_us, len, format_info) ==
    IF ~IsSet(a.appsrc) THEN a
    ELSE LET frame_size == get_frame_size(a, format_info)
             packed_frame == format_info.channels * 3
             aligned_frame == format_info.channels * 4
         IN  IF frame_size <= 0 THEN a
             ELSE IF len % frame_size = 0
                  THEN SubmitChunk(a, timestamp_us, len, format_info, frame_size)
             ELSE IF format_info.bit_depth # 24 THEN a
             ELSE IF len % aligned_frame = 0
                  THEN SubmitChunk(
                         IF a.bytes_per_sample_override # Some(4)
                         THEN update_caps([a EXCEPT !.bytes_per_sample_override = Some(4)],
                                          format_info)
                         ELSE a,
                         timestamp_us, len, format_info, aligned_frame)
             ELSE IF IsSet(a.bytes_per_sample_override) /\ len % packed_frame = 0
                  THEN SubmitChunk(
                         update_caps([a EXCEPT !.bytes_per_sample_override = None], format_info),
                         timestamp_us, len, format_info, packed_frame)
             ELSE a

\* whether the source stage can take one more chunk within the exploration
RoomForChunk(a, limit) == IsSet(a.appsrc) => Len(Val(a.appsrc).buffers) < limit

---------------------------------------------------------------------------
(* Values the explorations draw arguments from *)

Formats == { PCM(44100, 24, 2), PCM(48000, 16, 2) }

SupportedLists ==
    { <<>>,
      << <<48000, 16>>, <<44100, 24>>, <<96000, 32>> >>,
      << <<48000, 24>> >> }

\* every stage there, each single stage missing, and two pairs of optional ones
AvailFamily ==
    { Stages } \cup { Stages \ {m} : m \in Stages }
    \cup { Stages \ {"volume", "equalizer"}, Stages \ {"queue", "post_convert"} }

\* lines 121-135: a stage the build cannot do without did not come back
RequiredStageMissing(format_info, sink_given, supported, avail) ==
    LET negotiated == IF sink_given /\ supported # <<>>
                      THEN pick_output_format(format_info, supported)
                      ELSE None
    IN  \/ {"pipeline", "appsrc", "audioconvert"} \ avail # {}
        \/ ~sink_given /\ "autoaudiosink" \notin avail
        \/ /\ IsSet(negotiated)
           /\ Val(negotiated)[1] # format_info.sample_rate
           /\ "audioresample" \notin avail
        \/ IsSet(negotiated) /\ "capsfilter" \notin avail

Volumes == { -10, 30, 120 }

CreateVolumes == { 30, 120 }

Band(f, w, g) == [kind |-> "dict", freq |-> f, bandwidth |-> w, gain |-> g]

IntArg(n) == [ok |-> TRUE, v |-> n]

---------------------------------------------------------------------------
(* Observer of the sequence configure_eq_bands; set_eq_enabled(False);     *)
(* set_eq_enabled(True): stage 1 after a configure call, 2 once disabled   *)
(* after it, 3 once enabled again; num and configs are what the configure  *)
(* call stored.                                                            *)

TripInit == [stage |-> 0, num |-> DefaultNumBands, configs |-> <<>>]

TripConfigured(t, num_bands, after) ==
    IF num_bands.ok
    THEN [stage |-> 1, num |-> after.eq_num_bands, configs |-> after.eq_band_configs]
    ELSE t

TripEnabled(t, enabled) ==
    IF t.stage = 0 THEN t
    ELSE IF ~enabled THEN [t EXCEPT !.stage = 2]
    ELSE IF t.stage = 2 THEN [t EXCEPT !.stage = 3]
    ELSE t

---------------------------------------------------------------------------
(* One action per public method of AudioPipeline; each draws the call's    *)
(* arguments from the sets it is given.                                    *)

AppUnchanged ==
    UNCHANGED <<sendspin_pipeline_teardown_id, glib_sources, glib_next_id,
                preset_cache, cache_file,
                chunk_call, loaders, om>>

Init ==
    /\ ap = AudioPipelineInit
    /\ sendspin_pipeline_teardown_id = None
    /\ glib_sources = {}
    /\ glib_next_id = 1
    /\ lastOp = [op |-> "init"]
    /\ trip = TripInit
    /\ eq_snapshot = None
    /\ preset_cache = None
    /\ cache_file = None
    /\ chunk_call = NoCall
    /\ loaders = NoLoaders
    /\ om = OutputManagerInit

CreatePipeline(Fs, Sinks, Supported, Avails, Vols, Mutes) ==
    \E f \in Fs, sink_given \in Sinks, supported \in Supported,
       avail \in Avails, volume \in Vols, muted \in Mutes :
        /\ ap' = create_pipeline(ap, f, sink_given, supported, avail, volume, muted)
        /\ lastOp' = [op |-> "create_pipeline", format_info |-> f,
                      sink_given |-> sink_given, supported |-> supported,
                      volume |-> volume, muted |-> muted,
                      build_path |-> ~SameFormatActive(ap, f),
                      required_missing |-> RequiredStageMissing(f, sink_given, supported, avail)]
        /\ UNCHANGED <<trip, eq_snapshot>>
        /\ AppUnchanged

DestroyPipeline ==
    /\ ap' = destroy_pipeline(ap)
    /\ lastOp' = [op |-> "destroy_pipeline", had_graph |-> IsSet(ap.pipeline)]
    /\ UNCHANGED <<trip, eq_snapshot>>
    /\ AppUnchanged

Flush ==
    /\ ap' = flush(ap)
    /\ lastOp' = [op |-> "flush"]
    /\ UNCHANGED <<trip, eq_snapshot>>
    /\ AppUnchanged

PushAudio(Stamps, Lens, Fs, limit) ==
    \E ts \in Stamps, len \in Lens, f \in Fs :
        /\ RoomForChunk(ap, limit)
        /\ ap' = push_audio(ap, ts, len, f)
        /\ lastOp' = [op |-> "push_audio", timestamp_us |-> ts, len |-> len, format_info |-> f]
        /\ UNCHANGED <<trip, eq_snapshot>>
        /\ AppUnchanged

SetVolume(Vols) ==
    \E volume \in Vols :
        /\ ap' = set_volume(ap, volume)
        /\ lastOp' = [op |-> "set_volume", volume |-> volume]
        /\ UNCHANGED <<trip, eq_snapshot>>
        /\ AppUnchanged

SetMuted ==
    \E muted \in BOOLEAN :
        /\ ap' = set_muted(ap, muted)
        /\ lastOp' = [op |-> "set_muted", muted |-> muted]
        /\ UNCHANGED <<trip, eq_snapshot>>
        /\ AppUnchanged

ConfigureEqBands(Counts, Lists) ==
    \E num_bands \in Counts, band_configs \in Lists :
        /\ ap' = configure_eq_bands(ap, num_bands, band_configs)
        /\ lastOp' = [op |-> "configure_eq_bands", num_bands |-> num_bands,
                      band_configs |-> band_configs]
        /\ trip' = TripConfigured(trip, num_bands, ap')
        /\ eq_snapshot' = AfterRebind(eq_snapshot, num_bands.ok)
        /\ AppUnchanged

SetEqEnabled(Flags) ==
    \E enabled \in Flags :
        /\ ap' = set_eq_enabled(ap, enabled)
        /\ lastOp' = [op |-> "set_eq_enabled", enabled |-> enabled]
        /\ trip' = TripEnabled(trip, enabled)
        /\ UNCHANGED eq_snapshot
        /\ AppUnchanged

---------------------------------------------------------------------------
(* Spec: the life cycle of one AudioPipeline object under every public     *)
(* method.  The arguments come from small sets, enough to give every field *)
(* of the object a value other than its initial one: a graph with and      *)
(* without negotiated output format, with and without equalizer stage, a   *)
(* failed build, chunks that set the timeline and the byte-width override. *)

LifeSupported == { <<>>, << <<48000, 24>> >> }

LifeAvail == { Stages, Stages \ {"equalizer"}, Stages \ {"appsrc"} }

LifeStamps == { 1000, 1040 }

LifeLens == { 16 }

LifeBandLists == { << Band(100, 50, 6), Band(1000, 500, -3) >> }

Next ==
    \/ CreatePipeline(Formats, {TRUE}, LifeSupported, LifeAvail, CreateVolumes, BOOLEAN)
    \/ DestroyPipeline
    \/ Flush
    \/ PushAudio(LifeStamps, LifeLens, Formats, LifeChunks)
    \/ ConfigureEqBands({IntArg(2)}, LifeBandLists)
    \/ SetEqEnabled({TRUE})

Spec == Init /\ [][Next]_vars

---------------------------------------------------------------------------
(* SpecBuild: graph construction against every answer of the               *)
(* collaborators (sink handle or none, supported lists, missing stages).   *)

NextBuild ==
    \/ CreatePipeline(Formats, BOOLEAN, SupportedLists, AvailFamily, {30}, {FALSE})
    \/ DestroyPipeline
    \/ SetVolume(Volumes)
    \/ SetMuted

SpecBuild == Init /\ [][NextBuild]_vars

---------------------------------------------------------------------------
(* Claims on the life cycle of the graph *)

NoGraph(a) ==
    /\ a.pipeline = None /\ a.appsrc = None /\ a.volume_element = None
    /\ a.eq_element = None /\ a.stream_format = None /\ a.stream_start_ts = None
    /\ a.last_pts_ns = None /\ a.bytes_per_sample_override = None

SameEqState(a, b) ==
    /\ a.eq_enabled = b.eq_enabled
    /\ a.eq_num_bands = b.eq_num_bands
    /\ a.eq_band_configs = b.eq_band_configs

\* C2: create_pipeline on an Active graph with the active format does not
\* rebuild: the graph and its source and equalizer handles are the same
\* objects with the same contents, the volume stage is still there,
\* stream_format, stream_start_ts, last_pts_ns, the byte-width override and
\* the EQ state are unchanged, and volume (clamped to [0,1]) and mute take the
\* passed values, in the object and in the volume stage.
C2_SameFormatCreateKeepsGraph ==
    [][ (lastOp'.op = "create_pipeline" /\ SameFormatActive(ap, lastOp'.format_info))
        => /\ ap'.pipeline = ap.pipeline
           /\ ap'.appsrc = ap.appsrc
           /\ ap'.eq_element = ap.eq_element
           /\ IsSet(ap'.volume_element) = IsSet(ap.volume_element)
           /\ ap'.bus = ap.bus
           /\ ap'.stream_format = ap.stream_format
           /\ ap'.stream_start_ts = ap.stream_start_ts
           /\ ap'.last_pts_ns = ap.last_pts_ns
           /\ ap'.bytes_per_sample_override = ap.bytes_per_sample_override
           /\ SameEqState(ap', ap)
           /\ ap'.volume = Max(0, Min(100, lastOp'.volume))
           /\ ap'.muted = lastOp'.muted
           /\ (IsSet(ap'.volume_element) =>
                 /\ Val(ap'.volume_element).volume = ap'.volume
                 /\ Val(ap'.volume_element).mute = ap'.muted) ]_vars

\* a create call that found a timeline, an override and a changed EQ state
\* and left them in place, with the volume it was passed clamped
C2_Witness ==
    /\ lastOp.op = "create_pipeline"
    /\ is_active(ap)
    /\ IsSet(ap.last_pts_ns)
    /\ IsSet(ap.bytes_per_sample_override)
    /\ Len(Val(ap.appsrc).buffers) = 2
    /\ ap.eq_enabled /\ ap.eq_num_bands = 2
    /\ ap.volume = 100 /\ ap.muted

\* C6: destroy_pipeline leaves pipeline, source handle, volume and equalizer
\* stage handles, stream_format, stream_start_ts, last_pts_ns and the
\* byte-width override unset, leaves volume, muted and the EQ state as they
\* were, and changes nothing at all when there is no graph.
C6_DestroyClearsGraphKeepsControls ==
    [][ lastOp'.op = "destroy_pipeline"
        => /\ NoGraph(ap')
           /\ ap'.volume = ap.volume
           /\ ap'.muted = ap.muted
           /\ SameEqState(ap', ap)
           /\ (~IsSet(ap.pipeline) => ap' = ap) ]_vars

\* a destroy that took a graph down while volume, mute and EQ were set
C6_Witness ==
    /\ lastOp.op = "destroy_pipeline"
    /\ lastOp.had_graph
    /\ ap.pipeline = None
    /\ ap.volume = 100 /\ ap.muted
    /\ ap.eq_enabled /\ ap.eq_num_bands = 2 /\ Len(ap.eq_band_configs) = 2

\* C7: a create_pipeline call that has to build (no Active graph of the same
\* format) and finds a required stage missing leaves no graph at all; one
\* that finds every required stage, also right after a failed one, ends
\* Active for the format it was given.
C7_FailedBuildLeavesNoGraph ==
    [][ (lastOp'.op = "create_pipeline" /\ ~SameFormatActive(ap, lastOp'.format_info))
        => IF lastOp'.required_missing
           THEN NoGraph(ap') /\ ~is_active(ap')
           ELSE is_active(ap') /\ ap'.stream_format = Some(lastOp'.format_info) ]_vars

\* a build given up for a missing required stage
C7_Witness ==
    /\ lastOp.op = "create_pipeline"
    /\ lastOp.required_missing
    /\ ~is_active(ap)
    /\ ap.pipeline = None /\ ap.appsrc = None /\ ap.stream_format = None

---------------------------------------------------------------------------
(* SpecSeq: the Timestamp Sequencer and the Sample Width Detector.  One    *)
(* graph with every stage, chunks with timestamps that go up, repeat and   *)
(* go back, and lengths that fit the packed frame only (12), the 4-byte    *)
(* frame only (16), both (24) or neither (7) of a 24-bit stereo stream. *)

SeqStamps == { 1000, 1040, 1100 }

SeqLens == { 7, 12, 16, 24 }

NextSeq ==
    \/ CreatePipeline(Formats, {FALSE}, {<<>>}, {Stages}, {30}, {FALSE})
    \/ DestroyPipeline
    \/ Flush
    \/ PushAudio(SeqStamps, SeqLens, Formats, MaxChunks)

SpecSeq == Init /\ [][NextSeq]_vars

Submitted(a) == IF IsSet(a.appsrc) THEN Val(a.appsrc).buffers ELSE <<>>

\* C1: the pts_ns of the buffers submitted to a source stage since its
\* timeline was last reset (build, flush) never go down, whatever the
\* timestamps of the chunks were.
C1_PtsNonDecreasing ==
    \A i \in 1..(Len(Submitted(ap)) - 1) :
        Submitted(ap)[i].pts <= Submitted(ap)[i + 1].pts

\* three chunks in a row: a jump forward, then a timestamp before the first
\* one, which was moved to the end of the timeline
C1_Witness ==
    /\ Len(Submitted(ap)) = 3
    /\ lastOp.op = "push_audio"
    /\ lastOp.timestamp_us < Val(ap.stream_start_ts)
    /\ Submitted(ap)[1].pts < Submitted(ap)[2].pts
    /\ Submitted(ap)[3].duration > 0
    /\ Submitted(ap)[3].pts = Submitted(ap)[2].pts + Submitted(ap)[3].duration

Packed(f) == f.channels * 3

Aligned(f) == f.channels * 4

PushOf24(f) ==
    /\ lastOp'.op = "push_audio"
    /\ lastOp'.format_info = f
    /\ f.bit_depth = 24
    /\ IsSet(ap.appsrc)

\* C5 as amended: for a 24-bit chunk pushed on an Active graph, a length
\* divisible by channels*4 and not by channels*3 sets the override to 4 and
\* the frame size to channels*4, and the chunk is counted in those frames;
\* with the override at 4, a length divisible by channels*3 and not by
\* channels*4 clears it, the frame size is channels*3 again and the chunk is
\* counted in those frames; a length divisible by both leaves the override
\* as it was.
C5_WidthOverrideFollowsAlignment ==
    [][ \A f \in Formats : PushOf24(f) =>
          LET len == lastOp'.len
              last == Submitted(ap')[Len(Submitted(ap'))]
          IN  /\ (len % Aligned(f) = 0 /\ len % Packed(f) # 0)
                 => /\ ap'.bytes_per_sample_override = Some(4)
                    /\ get_frame_size(ap', f) = Aligned(f)
                    /\ Val(ap'.appsrc).caps.format = "S24_32LE"
                    /\ last.size = len
                    /\ last.duration = DurationNs(len \div Aligned(f), f.sample_rate)
              /\ (ap.bytes_per_sample_override = Some(4)
                  /\ len % Packed(f) = 0 /\ len % Aligned(f) # 0)
                 => /\ ap'.bytes_per_sample_override = None
                    /\ get_frame_size(ap', f) = Packed(f)
                    /\ Val(ap'.appsrc).caps.format = "S24LE"
                    /\ last.size = len
                    /\ last.duration = DurationNs(len \div Packed(f), f.sample_rate)
              /\ (len % Packed(f) = 0 /\ len % Aligned(f) = 0)
                 => ap'.bytes_per_sample_override = ap.bytes_per_sample_override ]_vars

\* C5 as claimed: with the override at 4, any chunk whose length is divisible
\* by channels*3 clears it.
C5_AnyPackedLengthClearsOverride ==
    [][ \A f \in Formats : PushOf24(f) =>
          ((ap.bytes_per_sample_override = Some(4) /\ lastOp'.len % Packed(f) = 0)
           => /\ ap'.bytes_per_sample_override = None
              /\ get_frame_size(ap', f) = Packed(f)) ]_vars

\* a 16-byte chunk counted as two 8-byte frames, then a 12-byte chunk counted
\* as two 6-byte frames, after which the override is unset again
C5_Witness ==
    /\ lastOp.op = "push_audio"
    /\ lastOp.format_info = PCM(44100, 24, 2)
    /\ lastOp.len = 12
    /\ ap.stream_format = Some(PCM(44100, 24, 2))
    /\ Len(Submitted(ap)) >= 2
    /\ LET n == Len(Submitted(ap))
       IN  /\ Submitted(ap)[n - 1].size = 16
           /\ Submitted(ap)[n - 1].duration = DurationNs(2, 44100)
           /\ Submitted(ap)[n].size = 12
           /\ Submitted(ap)[n].duration = DurationNs(2, 44100)
    /\ ap.bytes_per_sample_override = None
    /\ Val(ap.appsrc).caps.format = "S24LE"

---------------------------------------------------------------------------
(* SpecEq: the Equalizer Controller.  Band counts that int() rejects, that *)
(* are clamped (0), and valid ones; band lists with rejected entries,      *)
(* gains outside [-24,12] and more entries than bands; graphs with and     *)
(* without equalizer stage, and a build that fails.                        *)

EqCounts == { [ok |-> FALSE], IntArg(0), IntArg(2), IntArg(3) }

EqBandLists ==
    { <<>>,
      << Band(100, 50, 6), Band(1000, 500, -3) >>,
      << Band(0, 50, 4), [kind |-> "nondict"], Band(200, 80, 20), [kind |-> "badnum"],
         Band(400, 90, -30), Band(800, 10, 1), Band(1600, 20, 2) >> }

EqAvail == { Stages, Stages \ {"equalizer"}, Stages \ {"audioconvert"} }

NextEq ==
    \/ CreatePipeline(Formats, {FALSE}, {<<>>}, EqAvail, {30}, {FALSE})
    \/ DestroyPipeline
    \/ ConfigureEqBands(EqCounts, EqBandLists)
    \/ SetEqEnabled(BOOLEAN)

SpecEq == Init /\ [][NextEq]_vars

LiveBands(a) == Val(a.eq_element).bands

StoredGain(a, i) == IF i <= Len(a.eq_band_configs) THEN a.eq_band_configs[i].gain ELSE 0

\* C8: create_pipeline and destroy_pipeline leave eq_enabled, eq_num_bands
\* and eq_band_configs as they were, and the equalizer stage of a newly built
\* graph has eq_num_bands bands whose gains are the stored ones (0 where no
\* configuration is stored) when the EQ is enabled and 0 when it is not.
C8_NewGraphCarriesEqState ==
    [][ /\ lastOp'.op \in {"create_pipeline", "destroy_pipeline"} => SameEqState(ap', ap)
        /\ (lastOp'.op = "create_pipeline" /\ lastOp'.build_path /\ IsSet(ap'.eq_element))
           => /\ Len(LiveBands(ap')) = ap.eq_num_bands
              /\ \A i \in 1..ap.eq_num_bands :
                    LiveBands(ap')[i].gain = IF ap.eq_enabled THEN StoredGain(ap, i) ELSE 0 ]_vars

\* a graph built after the EQ was configured with three bands, two of them
\* stored, and enabled
C8_Witness ==
    /\ lastOp.op = "create_pipeline" /\ lastOp.build_path
    /\ IsSet(ap.eq_element)
    /\ ap.eq_enabled /\ ap.eq_num_bands = 3 /\ Len(ap.eq_band_configs) = 2
    /\ LiveBands(ap)[1].gain = 6 /\ LiveBands(ap)[2].gain = -3 /\ LiveBands(ap)[3].gain = 0

\* C9: once configure_eq_bands, set_eq_enabled(False) and set_eq_enabled(True)
\* have been called in this order (with no other configure call in between),
\* eq_num_bands and eq_band_configs are what the configure call stored, and
\* the gains of the live bands are the stored gains.
C9_DisableEnableRoundTrip ==
    trip.stage = 3
    => /\ ap.eq_enabled
       /\ ap.eq_num_bands = trip.num
       /\ ap.eq_band_configs = trip.configs
       /\ IsSet(ap.eq_element)
          => /\ Len(LiveBands(ap)) = trip.num
             /\ \A i \in 1..trip.num : LiveBands(ap)[i].gain = StoredGain(ap, i)

\* the round trip done on a live graph, with clamped gains stored
C9_Witness ==
    /\ trip.stage = 3
    /\ lastOp = [op |-> "set_eq_enabled", enabled |-> TRUE]
    /\ IsSet(ap.eq_element)
    /\ Len(ap.eq_band_configs) = 3
    /\ LiveBands(ap)[1].gain = 12 /\ LiveBands(ap)[2].gain = -24

\* C10: whenever the EQ is disabled and the graph has an equalizer stage,
\* the stage has eq_num_bands bands, all with gain 0; and neither
\* set_eq_enabled nor create_pipeline changes eq_band_configs.
C10_DisabledMeansZeroGain ==
    [][ /\ (~ap'.eq_enabled /\ IsSet(ap'.eq_element))
           => /\ Len(LiveBands(ap')) = ap'.eq_num_bands
              /\ \A i \in 1..ap'.eq_num_bands : LiveBands(ap')[i].gain = 0
        /\ lastOp'.op \in {"set_eq_enabled", "create_pipeline"}
           => ap'.eq_band_configs = ap.eq_band_configs ]_vars

\* the EQ switched off on a live graph while two gains are stored
C10_Witness ==
    /\ lastOp = [op |-> "set_eq_enabled", enabled |-> FALSE]
    /\ trip.stage = 2
    /\ IsSet(ap.eq_element)
    /\ ~ap.eq_enabled
    /\ Len(ap.eq_band_configs) = 2 /\ ap.eq_band_configs[1].gain = 6
    /\ \A i \in 1..ap.eq_num_bands : LiveBands(ap)[i].gain = 0

---------------------------------------------------------------------------
(* SpecPick: the Format Negotiator on its own.  It is a static method: it  *)
(* is given a format and a list and has no access to the object.  The      *)
(* initial states are the calls, the one action returns.                   *)

PickEntries == { <<r, d>> : r \in {32000, 44100, 64000}, d \in {16, 24} }

RECURSIVE ListsUpTo(_, _)
ListsUpTo(S, n) ==
    IF n = 0 THEN { <<>> }
    ELSE LET shorter == ListsUpTo(S, n - 1)
         IN  shorter \cup { Append(l, e) : l \in { x \in shorter : Len(x) = n - 1 }, e \in S }

PickLists ==
    ListsUpTo(PickEntries, MaxSupported)
    \cup { << <<48000, 16>>, <<44100, 24>>, <<96000, 32>> >> }

PickFormats == { PCM(44100, 24, 2), PCM(48000, 16, 2) }

InitPick ==
    /\ ap = AudioPipelineInit
    /\ sendspin_pipeline_teardown_id = None
    /\ glib_sources = {}
    /\ glib_next_id = 1
    /\ trip = TripInit
    /\ eq_snapshot = None
    /\ preset_cache = None
    /\ cache_file = None
    /\ chunk_call = NoCall
    /\ loaders = NoLoaders
    /\ om = OutputManagerInit
    /\ lastOp \in { [op |-> "call", format_info |-> f, supported |-> l] :
                    f \in PickFormats, l \in PickLists }

PickOutputFormat ==
    /\ lastOp.op = "call"
    /\ lastOp' = [op |-> "pick_output_format", format_info |-> lastOp.format_info,
                  supported |-> lastOp.supported,
                  result |-> pick_output_format(lastOp.format_info, lastOp.supported)]
    /\ UNCHANGED <<ap, trip, eq_snapshot>>
    /\ AppUnchanged

SpecPick == InitPick /\ [][PickOutputFormat]_vars

\* the lists with the entries of l in another order
Reorderings(l) ==
    { [i \in 1..Len(l) |-> l[f[i]]] :
        f \in { g \in [1..Len(l) -> 1..Len(l)] : \A i, j \in 1..Len(l) : g[i] = g[j] => i = j } }

\* C20: the order of the supported list is irrelevant: for every stream rate
\* and every reordering of the same list, _pick_output_format returns the
\* same (rate, depth) pair.
C20_PickIgnoresOrder ==
    lastOp.op = "pick_output_format"
    => \A l \in Reorderings(lastOp.supported) :
           pick_output_format(lastOp.format_info, l) = lastOp.result

\* C4: the result is None for the empty list; otherwise it is an entry of the
\* list, and no entry of the list is closer in rate to the stream, or as close
\* with a higher bit depth.
C4_PickIsMinimal ==
    lastOp.op = "pick_output_format"
    => LET rate == lastOp.format_info.sample_rate
           sup == lastOp.supported
           r == lastOp.result
       IN  /\ sup = <<>> => r = None
           /\ sup # <<>>
              => /\ IsSet(r)
                 /\ \E i \in 1..Len(sup) : sup[i] = Val(r)
                 /\ \A j \in 1..Len(sup) :
                       \/ Abs(sup[j][1] - rate) > Abs(Val(r)[1] - rate)
                       \/ /\ Abs(sup[j][1] - rate) = Abs(Val(r)[1] - rate)
                          /\ sup[j][2] <= Val(r)[2]
           /\ (rate = 44100 /\ sup = << <<48000, 16>>, <<44100, 24>>, <<96000, 32>> >>)
              => r = Some(<<44100, 24>>)

\* a pick among three entries where the closest rate comes with two depths
\* and the lower depth comes first
C4_Witness ==
    /\ lastOp.op = "pick_output_format"
    /\ lastOp.format_info.sample_rate = 48000
    /\ lastOp.supported = << <<32000, 16>>, <<44100, 16>>, <<44100, 24>> >>
    /\ lastOp.result = Some(<<44100, 24>>)

---------------------------------------------------------------------------
(* SpecApp: the Sendspin event handlers of output_handlers.py around one   *)
(* AudioPipeline, with the GLib timeout that tears the graph down two      *)
(* seconds after a stream end.  glib_sources holds the timeout sources     *)
(* GLib still has to fire; GLib never hands out the same id twice.         *)

cancel_sendspin_pipeline_teardown_LeavesSource(teardown_id, sources) ==
    [teardown_id |-> None, sources |-> sources]

\* lines 203-211; the result is the app field and GLib's sources afterwards
cancel_sendspin_pipeline_teardown(teardown_id, sources) ==
    IF teardown_id = None
    THEN [teardown_id |-> teardown_id, sources |-> sources]
    ELSE [teardown_id |-> None, sources |-> sources \ {Val(teardown_id)}]

Cancelled == cancel_sendspin_pipeline_teardown(sendspin_pipeline_teardown_id, glib_sources)

AppStamps == { 1000, 1040 }

AppLens == { 12 }

AppAvail == { Stages, Stages \ {"appsrc"} }

\* lines 231-245.  AudioPipeline defines no reset_stream_timing: the call at
\* line 233 raises AttributeError and the handler ends there, after the
\* cancel and before create_pipeline.
OnSendspinStreamStart ==
    \E f \in Formats :
        /\ sendspin_pipeline_teardown_id' = Cancelled.teardown_id
        /\ glib_sources' = Cancelled.sources
        /\ lastOp' = [op |-> "on_sendspin_stream_start", format_info |-> f,
                      found_pending |-> IsSet(sendspin_pipeline_teardown_id),
                      create_called |-> FALSE]
        /\ UNCHANGED <<ap, glib_next_id, trip, eq_snapshot, preset_cache, cache_file,
                chunk_call, loaders, om>>

schedule_sendspin_pipeline_teardown_NoCancel(teardown_id, sources, new_id) ==
    [teardown_id |-> Some(new_id), sources |-> sources \cup {new_id}]

\* lines 214-221: cancel, then GLib.timeout_add, whose id the app keeps;
\* new_id is the id GLib hands out
schedule_sendspin_pipeline_teardown(teardown_id, sources, new_id) ==
    LET c == cancel_sendspin_pipeline_teardown(teardown_id, sources)
    IN  [teardown_id |-> Some(new_id), sources |-> c.sources \cup {new_id}]

Scheduled == schedule_sendspin_pipeline_teardown(sendspin_pipeline_teardown_id, glib_sources, glib_next_id)

\* lines 248-250
OnSendspinStreamEnd ==
    /\ glib_next_id <= MaxTimers
    /\ ap' = flush(ap)
    /\ sendspin_pipeline_teardown_id' = Scheduled.teardown_id
    /\ glib_sources' = Scheduled.sources
    /\ glib_next_id' = glib_next_id + 1
    /\ lastOp' = [op |-> "on_sendspin_stream_end",
                  found_pending |-> IsSet(sendspin_pipeline_teardown_id)]
    /\ UNCHANGED <<trip, eq_snapshot, preset_cache, cache_file,
                chunk_call, loaders, om>>

SendspinPipelineTeardown_KeepsGraph ==
    \E id \in glib_sources :
        /\ sendspin_pipeline_teardown_id' = None
        /\ glib_sources' = glib_sources \ {id}
        /\ lastOp' = [op |-> "sendspin_pipeline_teardown", id |-> id,
                      was_active |-> is_active(ap)]
        /\ UNCHANGED <<ap, glib_next_id, trip, eq_snapshot, preset_cache, cache_file,
                chunk_call, loaders, om>>

\* lines 224-228: GLib fires a pending timeout; returning False removes it
SendspinPipelineTeardown ==
    \E id \in glib_sources :
        /\ sendspin_pipeline_teardown_id' = None
        /\ ap' = destroy_pipeline(ap)
        /\ glib_sources' = glib_sources \ {id}
        /\ lastOp' = [op |-> "sendspin_pipeline_teardown", id |-> id,
                      was_active |-> is_active(ap)]
        /\ UNCHANGED <<glib_next_id, trip, eq_snapshot, preset_cache, cache_file,
                chunk_call, loaders, om>>

\* lines 264-265
OnSendspinStreamClear ==
    /\ ap' = flush(ap)
    /\ lastOp' = [op |-> "on_sendspin_stream_clear"]
    /\ UNCHANGED <<sendspin_pipeline_teardown_id, glib_sources, glib_next_id, trip,
                   eq_snapshot, preset_cache, cache_file,
                chunk_call, loaders, om>>

\* lines 268-287
OnSendspinAudioChunk ==
    \E ts \in AppStamps, len \in AppLens, f \in Formats, sink_given \in BOOLEAN,
       avail \in AppAvail :
        LET created == IF ~is_active(ap)
                       THEN create_pipeline(ap, f, sink_given, <<>>, avail, 30, FALSE)
                       ELSE ap
        IN  /\ RoomForChunk(ap, LifeChunks)
            /\ sendspin_pipeline_teardown_id' = Cancelled.teardown_id
            /\ glib_sources' = Cancelled.sources
            /\ ap' = push_audio(created, ts, len, f)
            /\ lastOp' = [op |-> "on_sendspin_audio_chunk", format_info |-> f,
                          found_pending |-> IsSet(sendspin_pipeline_teardown_id),
                          create_called |-> ~is_active(ap),
                          pending_at_create |-> \/ IsSet(Cancelled.teardown_id)
                                                \/ Cancelled.sources # {}]
            /\ UNCHANGED <<glib_next_id, trip, eq_snapshot, preset_cache, cache_file,
                chunk_call, loaders, om>>

\* lines 142-161, for a Sendspin-capable build: cancel, then destroy
OnLocalOutputSelectionChanged ==
    /\ sendspin_pipeline_teardown_id' = Cancelled.teardown_id
    /\ glib_sources' = Cancelled.sources
    /\ ap' = destroy_pipeline(ap)
    /\ lastOp' = [op |-> "on_local_output_selection_changed",
                  found_pending |-> IsSet(sendspin_pipeline_teardown_id)]
    /\ UNCHANGED <<glib_next_id, trip, eq_snapshot, preset_cache, cache_file,
                chunk_call, loaders, om>>

NextApp ==
    \/ OnSendspinStreamStart
    \/ OnSendspinStreamEnd
    \/ SendspinPipelineTeardown
    \/ OnSendspinStreamClear
    \/ OnSendspinAudioChunk
    \/ OnLocalOutputSelectionChanged

SpecApp == Init /\ [][NextApp]_vars

\* The GLib main loop runs every timeout source it holds: a teardown timer
\* that stays pending is eventually fired.
SpecAppFair == SpecApp /\ WF_vars(SendspinPipelineTeardown)

\* C3: an audio-chunk or stream-start event leaves no teardown pending,
\* neither in the app nor in GLib, so the timer it canceled cannot fire; the
\* timer that does fire is the one the app holds as pending; a graph goes
\* away only by that timer or by an output selection; and the audio-chunk
\* handler calls create_pipeline only after the cancel.
C3_ChunkOrStartCancelsTeardown ==
    [][ /\ lastOp'.op \in {"on_sendspin_audio_chunk", "on_sendspin_stream_start"}
           => /\ sendspin_pipeline_teardown_id' = None
              /\ glib_sources' = {}
        /\ lastOp'.op = "sendspin_pipeline_teardown"
           => sendspin_pipeline_teardown_id = Some(lastOp'.id)
        /\ (is_active(ap) /\ ~is_active(ap'))
           => lastOp'.op \in {"sendspin_pipeline_teardown", "on_local_output_selection_changed"}
        /\ (lastOp'.op \in {"on_sendspin_audio_chunk", "on_sendspin_stream_start"}
            /\ lastOp'.create_called)
           => ~lastOp'.pending_at_create ]_vars

\* a chunk that arrived while the teardown was pending: the graph built
\* before the stream end is still there and has taken the chunk
C3_Witness ==
    /\ lastOp.op = "on_sendspin_audio_chunk"
    /\ lastOp.found_pending
    /\ ~lastOp.create_called
    /\ sendspin_pipeline_teardown_id = None
    /\ glib_sources = {}
    /\ is_active(ap)
    /\ Len(Submitted(ap)) = 1

\* C33: at most one delayed teardown is pending; the app's
\* sendspin_pipeline_teardown_id is set exactly while GLib holds a timer and
\* names that timer; a stream end leaves only the timer it scheduled; after
\* the timer fires or a handler cancels, the id is unset and no timer is
\* left; and the timer that fires is the one the app held, never a
\* canceled one.
C33_AtMostOnePendingTeardown ==
    [][ /\ Cardinality(glib_sources') <= 1
        /\ IsSet(sendspin_pipeline_teardown_id') <=> glib_sources' # {}
        /\ IsSet(sendspin_pipeline_teardown_id')
           => glib_sources' = {Val(sendspin_pipeline_teardown_id')}
        /\ lastOp'.op = "on_sendspin_stream_end"
           => /\ sendspin_pipeline_teardown_id' = Some(glib_next_id)
              /\ glib_next_id \notin glib_sources
        /\ lastOp'.op \in {"sendspin_pipeline_teardown", "on_sendspin_audio_chunk",
                           "on_sendspin_stream_start",
                           "on_local_output_selection_changed"}
           => /\ sendspin_pipeline_teardown_id' = None
              /\ glib_sources' = {}
        /\ lastOp'.op = "sendspin_pipeline_teardown"
           => /\ lastOp'.id \in glib_sources
              /\ sendspin_pipeline_teardown_id = Some(lastOp'.id) ]_vars

\* a second stream end while the first one's timer was still pending: only
\* the second timer is left
C33_Witness ==
    /\ lastOp.op = "on_sendspin_stream_end"
    /\ lastOp.found_pending
    /\ glib_next_id = 3
    /\ glib_sources = {2}
    /\ sendspin_pipeline_teardown_id = Some(2)

\* C35: a stream-start event cancels any pending teardown and ends with
\* the pipeline active for the announced format, its timeline reset: the
\* graph is there, stream_format is the event's format, and neither a first
\* timestamp nor a last presentation time is held.
C35_StreamStartEndsActive ==
    [][ lastOp'.op = "on_sendspin_stream_start"
        => /\ sendspin_pipeline_teardown_id' = None
           /\ glib_sources' = {}
           /\ is_active(ap')
           /\ ap'.stream_format = Some(lastOp'.format_info)
           /\ ap'.stream_start_ts = None
           /\ ap'.last_pts_ns = None ]_vars

CancellingEvents ==
    {"on_sendspin_audio_chunk", "on_sendspin_stream_start",
     "on_local_output_selection_changed"}

\* C34: after a stream-end event, unless an audio chunk, a stream start or
\* an output selection is handled, the teardown timer eventually fires and
\* the graph is destroyed; and the pipeline, once inactive, becomes active
\* again only by a handler that calls create_pipeline.
C34_StreamEndLeadsToTeardown ==
    /\ (lastOp.op = "on_sendspin_stream_end")
          ~> \/ lastOp.op = "sendspin_pipeline_teardown" /\ ~is_active(ap)
             \/ lastOp.op \in CancellingEvents
    /\ [][ (~is_active(ap) /\ is_active(ap'))
           => (lastOp'.op \in CancellingEvents /\ lastOp'.create_called) ]_vars

\* the timer has fired on a graph that was playing: it is gone and no timer
\* is left
C34_Witness ==
    /\ lastOp.op = "sendspin_pipeline_teardown"
    /\ lastOp.was_active
    /\ ~is_active(ap)
    /\ ap.stream_format = None
    /\ glib_sources = {}

---------------------------------------------------------------------------
(* SpecChunk: the audio-chunk handler taken statement by statement, next   *)
(* to the stream-end handler and the teardown timer.  chunk_call is where  *)
(* the call stands: "cancelled" after line 271, "ready" after 274-286,     *)
(* "checked" after push_audio has found a source stage (line 273 of        *)
(* audio_pipeline.py), and back to "idle" once the buffer is emitted.      *)
(* The Sendspin client that calls the handlers is not part of the model:   *)
(* ControlPathFree is the scheduling the concurrency section lays down     *)
(* for it, one serialized control path on which calls interleave only as   *)
(* whole calls.                                                            *)

ControlPathFree_Concurrent == TRUE

ControlPathFree == chunk_call.pc = "idle"

ChunkUnchanged ==
    UNCHANGED <<glib_next_id, trip, eq_snapshot, preset_cache, cache_file, loaders, om>>

\* output_handlers.py line 271
ChunkCancel ==
    \E ts \in AppStamps, len \in AppLens, f \in Formats :
        /\ chunk_call.pc = "idle"
        /\ RoomForChunk(ap, LifeChunks)
        /\ chunk_call' = [pc |-> "cancelled", timestamp_us |-> ts, len |-> len,
                          format_info |-> f]
        /\ sendspin_pipeline_teardown_id' = Cancelled.teardown_id
        /\ glib_sources' = Cancelled.sources
        /\ lastOp' = [op |-> "chunk_cancel"]
        /\ UNCHANGED ap
        /\ ChunkUnchanged

\* output_handlers.py lines 274-286
ChunkEnsurePipeline ==
    \E sink_given \in BOOLEAN, avail \in AppAvail :
        /\ chunk_call.pc = "cancelled"
        /\ ap' = IF ~is_active(ap)
                 THEN create_pipeline(ap, chunk_call.format_info, sink_given, <<>>,
                                      avail, 30, FALSE)
                 ELSE ap
        /\ chunk_call' = [chunk_call EXCEPT !.pc = "ready"]
        /\ lastOp' = [op |-> "chunk_ensure_pipeline", create_called |-> ~is_active(ap)]
        /\ UNCHANGED <<sendspin_pipeline_teardown_id, glib_sources>>
        /\ ChunkUnchanged

\* audio_pipeline.py lines 273-274: the test push_audio starts with
\* (is_active's test, the pipeline and the source stage being set and
\* cleared together)
ChunkActiveCheck ==
    /\ chunk_call.pc = "ready"
    /\ chunk_call' = IF IsSet(ap.appsrc)
                     THEN [chunk_call EXCEPT !.pc = "checked"]
                     ELSE NoCall
    /\ lastOp' = [op |-> "chunk_active_check", found |-> IsSet(ap.appsrc)]
    /\ UNCHANGED <<ap, sendspin_pipeline_teardown_id, glib_sources>>
    /\ ChunkUnchanged

\* audio_pipeline.py lines 275-328.  When the source stage has been
\* cleared since the test, self.appsrc.emit at line 326 is an attribute
\* read on None: the chunk goes nowhere and AttributeError ends the call.
ChunkSubmit ==
    /\ chunk_call.pc = "checked"
    /\ ap' = IF IsSet(ap.appsrc)
             THEN push_audio(ap, chunk_call.timestamp_us, chunk_call.len,
                             chunk_call.format_info)
             ELSE ap
    /\ chunk_call' = NoCall
    /\ lastOp' = [op |-> "chunk_submit", used_cleared |-> ~IsSet(ap.appsrc),
                  active |-> is_active(ap),
                  submitted |-> Len(Submitted(ap')) - Len(Submitted(ap))]
    /\ UNCHANGED <<sendspin_pipeline_teardown_id, glib_sources>>
    /\ ChunkUnchanged

NextChunk ==
    \/ ChunkCancel
    \/ ChunkEnsurePipeline
    \/ ChunkActiveCheck
    \/ ChunkSubmit
    \/ ControlPathFree /\ OnSendspinStreamEnd
    \/ ControlPathFree /\ SendspinPipelineTeardown

SpecChunk == Init /\ [][NextChunk]_vars

---------------------------------------------------------------------------
(* SpecCfg: configure_eq_bands on its own, without a graph, against band   *)
(* counts below, inside and above [1,64] and ones int() rejects, and band  *)
(* lists with rejected entries, gains and frequencies out of range, more   *)
(* entries than bands, and NaN values.                                     *)

NaNBand(f, w, g, keys) ==
    [kind |-> "dict", freq |-> f, bandwidth |-> w, gain |-> g, nan |-> keys]

CfgCounts ==
    { [ok |-> FALSE], IntArg(-5), IntArg(0), IntArg(1), IntArg(2), IntArg(64), IntArg(100) }

CfgBandLists ==
    { <<>>,
      << Band(100, 50, 6), Band(1000, 500, -3) >>,
      << Band(0, 50, 4), [kind |-> "nondict"], Band(200, 80, 20), [kind |-> "badnum"],
         Band(400, 90, -30), Band(800, 10, 1) >>,
      << Band(100, 0, 1), Band(-3, 5, 1), Band(50, -1, 0) >>,
      << Band(30000, 50, 0), Band(10, 30000, 0), Band(20000, 20000, 12) >>,
      << Band(200, 80, 20), NaNBand(0, 50, 0, {"freq", "gain"}) >>,
      << NaNBand(100, 0, 3, {"bandwidth"}) >> }

NextCfg ==
    \/ ConfigureEqBands(CfgCounts, CfgBandLists)
    \/ SetEqEnabled(BOOLEAN)

SpecCfg == Init /\ [][NextCfg]_vars

\* value > 0.0 in floats
FloatGtZero(config, key) == key \notin NaNKeys(config) /\ config[key] > 0

\* lo <= value <= hi in floats
FloatWithin(config, key, lo, hi) ==
    key \notin NaNKeys(config) /\ lo <= config[key] /\ config[key] <= hi

\* the entries of a list that are dicts of numbers with neither freq <= 0
\* nor bandwidth <= 0
NotRejected(band_configs) ==
    SelectSeq(band_configs,
              LAMBDA c : c.kind = "dict" /\ ~FloatLeqZero(c, "freq")
                                         /\ ~FloatLeqZero(c, "bandwidth"))

\* C11: after a configure_eq_bands call eq_num_bands is in [1,64], the
\* stored list is not longer than eq_num_bands, every stored configuration
\* has freq > 0, bandwidth > 0 and gain in [-24,12], and the stored list is
\* the input list without its rejected entries, in the input's order, cut at
\* eq_num_bands; a band count int() rejects leaves the whole object as it was.
C11_StoredBandsValid ==
    [][ lastOp'.op = "configure_eq_bands" =>
          IF ~lastOp'.num_bands.ok THEN ap' = ap
          ELSE LET kept == NotRejected(lastOp'.band_configs)
                   stored == ap'.eq_band_configs
               IN  /\ ap'.eq_num_bands \in 1..64
                   /\ Len(stored) <= ap'.eq_num_bands
                   /\ Len(stored) = Min(Len(kept), ap'.eq_num_bands)
                   /\ \A i \in 1..Len(stored) :
                        /\ stored[i].freq = kept[i].freq
                        /\ stored[i].bandwidth = kept[i].bandwidth
                        /\ NaNKeys(stored[i]) = NaNKeys(kept[i])
                        /\ FloatGtZero(stored[i], "freq")
                        /\ FloatGtZero(stored[i], "bandwidth")
                        /\ FloatWithin(stored[i], "gain", -24, 12) ]_vars

\* C12: every stored configuration has freq in [20,20000] and bandwidth in
\* (0,20000], a frequency given outside [20,20000] being stored as the nearer
\* end of it (30000 as 20000).  Stated for the configurations that hold no
\* NaN, which C11 is about.
C12_StoredFreqClamped ==
    [][ (lastOp'.op = "configure_eq_bands" /\ lastOp'.num_bands.ok) =>
          LET kept == NotRejected(lastOp'.band_configs)
              stored == ap'.eq_band_configs
          IN  \A i \in 1..Len(stored) :
                NaNKeys(stored[i]) = {}
                => /\ stored[i].freq \in 20..20000
                   /\ stored[i].bandwidth \in 1..20000
                   /\ stored[i].freq = Max(20, Min(20000, kept[i].freq)) ]_vars

---------------------------------------------------------------------------
(* Preset conversion (music_assistant/eq_presets.py).  A value read from a *)
(* filter dict is Missing (key absent or None), Num(n) or Text (something  *)
(* float() rejects).  Frequencies are in Hz and gains in dB, as integers;  *)
(* Q is in tenths (0.7 is 7).  A bandwidth freq / Q is the exact fraction  *)
(* [num |-> freq * QScale, den |-> Q in tenths].  A filter entry is        *)
(* [kind |-> "dict", type, frequency, gain, Q] or [kind |-> "nondict"];    *)
(* type is a string, "" when the key is absent.                            *)

MaxFilters == 3

QScale == 10

MIN_FREQUENCY == 20

MAX_FREQUENCY == 20000

MIN_GAIN == -24

MAX_GAIN == 12

SHELF_FILTER_HANDLING == "approximate"

SHELF_APPROX_Q == 7

SHELF_APPROX_GAIN_SCALE == 1

Missing == [t |-> "none"]

Num(n) == [t |-> "num", v |-> n]

Text == [t |-> "str"]

\* float("nan"), or a NaN of the JSON text
NaNValue == [t |-> "nan"]

\* lines 69-75.  float() returns NaN for NaNValue: 0 stands in for it and
\* FilterValues keeps the keys whose value is NaN
coerce_float(value) ==
    IF value.t = "num" THEN Some(value.v)
    ELSE IF value.t = "nan" THEN Some(0)
    ELSE None

\* str(value).strip().lower(), on the strings the exploration uses
normalize_text(value) ==
    CASE value = "LowShelf" -> "lowshelf"
      [] value = " HSHELF " -> "hshelf"
      [] value = "Peaking" -> "peaking"
      [] value = " HD 650 " -> "hd 650"
      [] value = "Acme HD 650" -> "acme hd 650"
      [] value = "P2" -> "p2"
      [] value = " " -> ""
      [] OTHER -> value

\* the normalized strings that contain "shelf"
ContainsShelf(normalized) == normalized \in {"lowshelf", "highshelf", "hshelf", "lshelf"}

is_shelf_filter(filter_type) ==
    LET normalized == normalize_text(filter_type)
    IN  normalized # "" /\ (ContainsShelf(normalized) \/ normalized \in {"lshelf", "hshelf"})

describe_filter(filter_entry, reason) ==
    [ frequency |-> coerce_float(filter_entry.frequency),
      gain |-> coerce_float(filter_entry.gain),
      Q |-> coerce_float(filter_entry.Q),
      type |-> filter_entry.type,
      reason |-> reason ]

ShelfQ_AlwaysDefault(q_value) == Some(SHELF_APPROX_Q)

\* lines 132-133
ShelfQ(q_value) == IF q_value = None THEN Some(SHELF_APPROX_Q) ELSE q_value

\* lines 120-135: the numbers of a dict entry after the shelf handling
FilterValues(filter_entry) ==
    LET freq == coerce_float(filter_entry.frequency)
        gain == coerce_float(filter_entry.gain)
        q_value == coerce_float(filter_entry.Q)
        shelf == is_shelf_filter(normalize_text(filter_entry.type))
        approx == shelf /\ SHELF_FILTER_HANDLING = "approximate"
        complete == freq # None /\ gain # None
    IN  [ shelf |-> shelf,
          freq |-> freq,
          gain |-> IF approx /\ complete
                   THEN Some(Val(gain) * SHELF_APPROX_GAIN_SCALE) ELSE gain,
          q_value |-> IF approx /\ complete THEN ShelfQ(q_value) ELSE q_value,
          nan |-> { k \in {"frequency", "gain", "Q"} : filter_entry[k].t = "nan" } ]

\* lines 153-170: the band of an entry that passed the checks on its numbers.
\* The range tests (153, 157, 167) are false for NaN, which is then kept;
\* freq / q_value is NaN when either is.  A band with NaN values has the
\* field nan, the set of its keys whose value is NaN.
BandOf(filter_entry) ==
    LET v == FilterValues(filter_entry)
        freq == IF "frequency" \in v.nan THEN 0
                ELSE Max(MIN_FREQUENCY, Min(MAX_FREQUENCY, Val(v.freq)))
        gain == IF "gain" \in v.nan THEN 0
                ELSE Max(MIN_GAIN, Min(MAX_GAIN, Val(v.gain)))
        num == freq * QScale
        den == Val(v.q_value)
        keys == { k \in {"freq", "bandwidth", "gain"} :
                    \/ k = "freq" /\ "frequency" \in v.nan
                    \/ k = "gain" /\ "gain" \in v.nan
                    \/ k = "bandwidth" /\ v.nan \cap {"frequency", "Q"} # {} }
        bandwidth == IF "bandwidth" \in keys THEN [num |-> 0, den |-> 1]
                     ELSE IF num > MAX_FREQUENCY * den
                     THEN [num |-> MAX_FREQUENCY, den |-> 1]
                     ELSE [num |-> num, den |-> den]
    IN  IF keys = {}
        THEN [freq |-> freq, bandwidth |-> bandwidth, gain |-> gain]
        ELSE [freq |-> freq, bandwidth |-> bandwidth, gain |-> gain, nan |-> keys]

DropReason_QFirst(filter_entry) ==
    IF filter_entry.kind # "dict" THEN "invalid_filter"
    ELSE LET v == FilterValues(filter_entry)
         IN  IF v.q_value # None /\ "Q" \notin v.nan /\ Val(v.q_value) <= 0 THEN "invalid_q"
             ELSE IF v.shelf /\ (v.freq = None \/ v.gain = None) THEN "incomplete_shelf"
             ELSE IF v.freq = None \/ v.gain = None \/ v.q_value = None THEN "incomplete"
             ELSE ""

\* lines 115-166: the reason an entry is dropped for, "" when it is kept
DropReason(filter_entry) ==
    IF filter_entry.kind # "dict" THEN "invalid_filter"
    ELSE LET v == FilterValues(filter_entry)
         IN  IF v.shelf /\ SHELF_FILTER_HANDLING = "approximate"
                /\ (v.freq = None \/ v.gain = None)
             THEN "incomplete_shelf"
             ELSE IF v.shelf /\ SHELF_FILTER_HANDLING # "approximate" THEN "unsupported_shelf"
             ELSE IF v.freq = None \/ v.gain = None \/ v.q_value = None THEN "incomplete"
             ELSE IF "Q" \notin v.nan /\ Val(v.q_value) <= 0 THEN "invalid_q"
             ELSE IF /\ "bandwidth" \notin NaNKeys(BandOf(filter_entry))
                     /\ BandOf(filter_entry).bandwidth.num <= 0
             THEN "invalid_bandwidth"
             ELSE ""

CollectStep_SkipsInvalid(acc, filter_entry) ==
    LET reason == DropReason(filter_entry)
    IN  IF reason = "invalid_filter" THEN acc
        ELSE IF reason # ""
        THEN [acc EXCEPT !.dropped_filters = Append(@, describe_filter(filter_entry, reason))]
        ELSE [acc EXCEPT !.bands = Append(@, BandOf(filter_entry))]

\* one pass of the loop at lines 114-170
CollectStep(acc, filter_entry) ==
    LET reason == DropReason(filter_entry)
    IN  IF reason = "invalid_filter"
        THEN [acc EXCEPT !.dropped_filters = Append(@, [raw |-> filter_entry, reason |-> reason])]
        ELSE IF reason # ""
        THEN [acc EXCEPT !.dropped_filters = Append(@, describe_filter(filter_entry, reason))]
        ELSE [acc EXCEPT !.bands = Append(@, BandOf(filter_entry))]

RECURSIVE CollectLoop(_, _, _)
CollectLoop(filters, i, acc) ==
    IF i > Len(filters) THEN acc
    ELSE CollectLoop(filters, i + 1, CollectStep(acc, filters[i]))

\* the BandConfigList: the bands, with the dropped filters on the side
collect_gstreamer_bands(filters) ==
    CollectLoop(filters, 1, [bands |-> <<>>, dropped_filters |-> <<>>])

(* A preset is [kind |-> "dict", filters |-> [t |-> "list", v |-> <<...>>]], *)
(* a dict whose filters value is absent ([t |-> "none"]) or not a list       *)
(* ([t |-> "str"]), or [kind |-> "nondict"].                                 *)
convert_opra_to_gstreamer(preset) ==
    IF preset.kind # "dict" THEN collect_gstreamer_bands(<<>>)
    ELSE IF preset.filters.t # "list" THEN collect_gstreamer_bands(<<>>)
    ELSE collect_gstreamer_bands(preset.filters.v)

---------------------------------------------------------------------------
(* SpecConv: convert_opra_to_gstreamer as a function of the preset.  The   *)
(* initial states are the calls, the one action returns.  The filters are  *)
(* peaking and shelving ones, complete and with each value missing,        *)
(* unparsable, out of range or with Q <= 0, and entries that are no dicts. *)

Filter(type, frequency, gain, q) ==
    [kind |-> "dict", type |-> type, frequency |-> frequency, gain |-> gain, Q |-> q]

ConvEntries ==
    { [kind |-> "nondict"],
      Filter("Peaking", Num(100), Num(3), Num(10)),
      Filter("", Num(10), Num(20), Num(5)),
      Filter("LowShelf", Num(100), Num(-6), Missing),
      Filter("highshelf", Num(19000), Num(4), Missing),
      Filter("lowshelf", Num(200), Num(2), Num(14)),
      Filter(" HSHELF ", Missing, Num(1), Num(0)),
      Filter("lowshelf", Num(100), Num(1), Num(-10)),
      Filter("peaking", Num(100), Missing, Num(0)),
      Filter("notch", Text, Num(1), Num(10)),
      Filter("peaking", Num(100), Num(1), Num(0)) }

ConvPresets ==
    { [kind |-> "nondict"],
      [kind |-> "dict", filters |-> Missing],
      [kind |-> "dict", filters |-> Text] }
    \cup { [kind |-> "dict", filters |-> [t |-> "list", v |-> l]] :
           l \in ListsUpTo(ConvEntries, MaxFilters) }

InitConv ==
    /\ ap = AudioPipelineInit
    /\ sendspin_pipeline_teardown_id = None
    /\ glib_sources = {}
    /\ glib_next_id = 1
    /\ trip = TripInit
    /\ eq_snapshot = None
    /\ preset_cache = None
    /\ cache_file = None
    /\ chunk_call = NoCall
    /\ loaders = NoLoaders
    /\ om = OutputManagerInit
    /\ lastOp \in { [op |-> "call_convert", preset |-> p] : p \in ConvPresets }

ConvertOpraToGstreamer ==
    /\ lastOp.op = "call_convert"
    /\ lastOp' = [op |-> "convert_opra_to_gstreamer", preset |-> lastOp.preset,
                  result |-> convert_opra_to_gstreamer(lastOp.preset)]
    /\ UNCHANGED <<ap, trip, eq_snapshot>>
    /\ AppUnchanged

SpecConv == InitConv /\ [][ConvertOpraToGstreamer]_vars

\* a conversion that returned, of a preset with a filter list
Converted ==
    /\ lastOp.op = "convert_opra_to_gstreamer"
    /\ lastOp.preset.kind = "dict"
    /\ lastOp.preset.filters.t = "list"

GivenFilters == lastOp.preset.filters.v

ReasonCodes ==
    { "invalid_filter", "incomplete", "incomplete_shelf", "unsupported_shelf",
      "invalid_q", "invalid_bandwidth" }

RECURSIVE OneByOne(_, _)
OneByOne(filters, i) ==
    IF i > Len(filters) THEN <<>>
    ELSE <<collect_gstreamer_bands(<<filters[i]>>)>> \o OneByOne(filters, i + 1)

RECURSIVE BandsOf(_, _)
BandsOf(singles, i) ==
    IF i > Len(singles) THEN <<>> ELSE singles[i].bands \o BandsOf(singles, i + 1)

\* C13: every filter of the list given to convert_opra_to_gstreamer ends in
\* exactly one of the band list and the dropped list, so the two lengths add
\* up to the length of the filter list; every dropped entry carries a reason
\* code; and the bands are those of the filters converted one by one, in the
\* order of the filters.
C13_EveryFilterAccountedFor ==
    Converted =>
      LET singles == OneByOne(GivenFilters, 1)
          r == lastOp.result
      IN  /\ Len(r.bands) + Len(r.dropped_filters) = Len(GivenFilters)
          /\ \A j \in 1..Len(r.dropped_filters) : r.dropped_filters[j].reason \in ReasonCodes
          /\ \A i \in 1..Len(singles) :
                Len(singles[i].bands) + Len(singles[i].dropped_filters) = 1
          /\ r.bands = BandsOf(singles, 1)

\* three filters, the middle one no dict: two different bands in the order
\* of their filters and one dropped entry
C13_Witness ==
    /\ Converted
    /\ GivenFilters = << Filter("", Num(10), Num(20), Num(5)), [kind |-> "nondict"],
                         Filter("Peaking", Num(100), Num(3), Num(10)) >>
    /\ Len(lastOp.result.bands) = 2
    /\ lastOp.result.bands[1].freq = 20 /\ lastOp.result.bands[2].freq = 100
    /\ Len(lastOp.result.dropped_filters) = 1
    /\ lastOp.result.dropped_filters[1].reason = "invalid_filter"

Absent(value) == value.t # "num"

ShelvingTypes == { "LowShelf", "lowshelf", "highshelf", " HSHELF " }

\* the order of checks C14 states, on the entry as given
ReasonInOrder(e) ==
    IF e.kind # "dict" THEN "invalid_filter"
    ELSE IF e.type \in ShelvingTypes /\ (Absent(e.frequency) \/ Absent(e.gain))
         THEN "incomplete_shelf"
    ELSE IF Absent(e.frequency) \/ Absent(e.gain)
            \/ (Absent(e.Q) /\ e.type \notin ShelvingTypes)
         THEN "incomplete"
    ELSE IF ~Absent(e.Q) /\ e.Q.v <= 0 THEN "invalid_q"
    ELSE ""

\* C14: a filter is dropped for the first check it fails, in the order: not
\* a dict (invalid_filter), shelving type without frequency or gain
\* (incomplete_shelf), frequency, gain or Q missing after the default Q of a
\* shelf (incomplete), Q <= 0 (invalid_q); a filter that fails one of them is
\* in the dropped list with that reason and not in the band list.  So a
\* non-shelf filter without gain is dropped as incomplete.
C14_FirstFailingCheckIsTheReason ==
    Converted =>
      LET n == Len(GivenFilters)
          reasons == [i \in 1..n |-> ReasonInOrder(GivenFilters[i])]
          failed == SelectSeq(reasons, LAMBDA x : x # "")
          r == lastOp.result
      IN  /\ Len(r.dropped_filters) = Len(failed)
          /\ \A j \in 1..Len(failed) : r.dropped_filters[j].reason = failed[j]
          /\ Len(r.bands) = n - Len(failed)
          /\ (/\ n = 1
              /\ GivenFilters[1].kind = "dict"
              /\ GivenFilters[1].type \notin ShelvingTypes
              /\ Absent(GivenFilters[1].gain))
             => /\ r.bands = <<>>
                /\ Len(r.dropped_filters) = 1
                /\ r.dropped_filters[1].reason = "incomplete"

\* a shelf without frequency, a peaking filter without gain (both with
\* Q = 0) and a complete filter with Q = 0, each dropped for its first
\* failing check
C14_Witness ==
    /\ Converted
    /\ GivenFilters = << Filter(" HSHELF ", Missing, Num(1), Num(0)),
                         Filter("peaking", Num(100), Missing, Num(0)),
                         Filter("peaking", Num(100), Num(1), Num(0)) >>
    /\ lastOp.result.bands = <<>>
    /\ lastOp.result.dropped_filters[1].reason = "incomplete_shelf"
    /\ lastOp.result.dropped_filters[2].reason = "incomplete"
    /\ lastOp.result.dropped_filters[3].reason = "invalid_q"

\* a lone shelving filter that has frequency and gain
LoneShelf ==
    /\ Converted
    /\ Len(GivenFilters) = 1
    /\ GivenFilters[1].kind = "dict"
    /\ GivenFilters[1].type \in ShelvingTypes
    /\ ~Absent(GivenFilters[1].frequency)
    /\ ~Absent(GivenFilters[1].gain)

AsPeaking(e, q) == [e EXCEPT !.type = "peaking", !.Q = q]

\* C15 as amended: a shelving filter with frequency and gain is never dropped
\* as incomplete_shelf or unsupported_shelf.  With Q missing it is kept and
\* converted as the peaking filter with Q = 0.7 and the same frequency and
\* gain is: freq is the frequency clamped into [20,20000], gain the gain
\* (times 1.0) clamped into [-24,12], bandwidth freq / 0.7 but at most 20000.
\* With Q given it is converted, or dropped, as the peaking filter with that
\* Q is.
C15_ShelfConvertedAsPeaking ==
    LoneShelf =>
      LET e == GivenFilters[1]
          r == lastOp.result
          q == IF Absent(e.Q) THEN Num(7) ELSE e.Q
          p == collect_gstreamer_bands(<<AsPeaking(e, q)>>)
          f == Max(20, Min(20000, e.frequency.v))
      IN  /\ r.bands = p.bands
          /\ Len(r.dropped_filters) = Len(p.dropped_filters)
          /\ \A j \in 1..Len(r.dropped_filters) :
                /\ r.dropped_filters[j].reason = p.dropped_filters[j].reason
                /\ r.dropped_filters[j].reason \notin {"incomplete_shelf", "unsupported_shelf"}
          /\ Absent(e.Q)
             => /\ Len(r.bands) = 1 /\ r.dropped_filters = <<>>
                /\ r.bands[1].freq = f
                /\ r.bands[1].gain = Max(-24, Min(12, e.gain.v * 1))
                /\ IF f * 10 > 20000 * 7
                   THEN r.bands[1].bandwidth.num = 20000 * r.bands[1].bandwidth.den
                   ELSE r.bands[1].bandwidth.num * 7 = f * 10 * r.bands[1].bandwidth.den

\* C15 as claimed: with Q missing the band's bandwidth is frequency / 0.7.
C15_ShelfBandwidthIsFrequencyOverQ ==
    (LoneShelf /\ Absent(GivenFilters[1].Q))
    => /\ Len(lastOp.result.bands) = 1
       /\ lastOp.result.bands[1].bandwidth.num * 7
          = GivenFilters[1].frequency.v * 10 * lastOp.result.bands[1].bandwidth.den

\* the spec's example: lowshelf, 100 Hz, -6 dB, no Q
C15_Witness ==
    /\ LoneShelf
    /\ GivenFilters[1] = Filter("LowShelf", Num(100), Num(-6), Missing)
    /\ lastOp.result.dropped_filters = <<>>
    /\ lastOp.result.bands = << [freq |-> 100, bandwidth |-> [num |-> 1000, den |-> 7],
                                 gain |-> -6] >>

---------------------------------------------------------------------------
(* SpecClamp: convert_opra_to_gstreamer on filters whose values lie inside, *)
(* below and above the ranges of a band, and on values float() turns into   *)
(* NaN.                                                                     *)

ClampEntries ==
    { Filter("peaking", Num(1000), Num(3), Num(10)),
      Filter("peaking", Num(5), Num(50), Num(10)),
      Filter("peaking", Num(30000), Num(-50), Num(20)),
      Filter("peaking", Num(15000), Num(0), Num(5)),
      Filter("lowshelf", Num(10), Num(-30), Missing),
      Filter("peaking", NaNValue, Num(3), Num(10)),
      Filter("peaking", Num(100), NaNValue, Num(10)),
      Filter("peaking", Num(100), Num(3), NaNValue) }

InitClamp ==
    /\ ap = AudioPipelineInit
    /\ sendspin_pipeline_teardown_id = None
    /\ glib_sources = {}
    /\ glib_next_id = 1
    /\ trip = TripInit
    /\ eq_snapshot = None
    /\ preset_cache = None
    /\ cache_file = None
    /\ chunk_call = NoCall
    /\ loaders = NoLoaders
    /\ om = OutputManagerInit
    /\ lastOp \in { [op |-> "call_convert",
                      preset |-> [kind |-> "dict", filters |-> [t |-> "list", v |-> l]]] :
                     l \in ListsUpTo(ClampEntries, MaxFilters) }

SpecClamp == InitClamp /\ [][ConvertOpraToGstreamer]_vars

\* C36: every band convert_opra_to_gstreamer returns has freq in
\* [20,20000], gain in [-24,12] and bandwidth in (0,20000]; and a filter
\* whose frequency, gain and Q are numbers, Q > 0, is never dropped,
\* whatever their size: its band has the frequency and the gain clamped
\* into their ranges and bandwidth = min(clamped frequency / Q, 20000).
C36_BandsWithinRanges ==
    Converted =>
      LET r == lastOp.result
      IN  /\ \A i \in 1..Len(r.bands) :
                /\ NaNKeys(r.bands[i]) = {}
                /\ 20 <= r.bands[i].freq /\ r.bands[i].freq <= 20000
                /\ -24 <= r.bands[i].gain /\ r.bands[i].gain <= 12
                /\ r.bands[i].bandwidth.num > 0 /\ r.bands[i].bandwidth.den > 0
                /\ r.bands[i].bandwidth.num <= 20000 * r.bands[i].bandwidth.den
          /\ (/\ Len(GivenFilters) = 1
              /\ GivenFilters[1].frequency.t = "num"
              /\ GivenFilters[1].gain.t = "num"
              /\ GivenFilters[1].Q.t = "num"
              /\ GivenFilters[1].Q.v > 0)
             => LET e == GivenFilters[1]
                    f == Max(20, Min(20000, e.frequency.v))
                IN  /\ r.dropped_filters = <<>>
                    /\ Len(r.bands) = 1
                    /\ r.bands[1].freq = f
                    /\ r.bands[1].gain = Max(-24, Min(12, e.gain.v))
                    /\ IF f * 10 > 20000 * e.Q.v
                       THEN r.bands[1].bandwidth.num = 20000 * r.bands[1].bandwidth.den
                       ELSE r.bands[1].bandwidth.num * e.Q.v
                            = f * 10 * r.bands[1].bandwidth.den

---------------------------------------------------------------------------
(* SpecPreset: apply_preset_to_pipeline on one AudioPipeline, with and      *)
(* without a graph, next to direct set_eq_enabled calls.  The preset        *)
(* argument is [t |-> "none"], a name [t |-> "str", name |-> n], a preset   *)
(* dict [t |-> "dict", preset |-> p] or a value of another type             *)
(* [t |-> "other"]; presets is the list a name is looked up in (the list    *)
(* given, which is not empty here, so that load_presets is not called).     *)

\* lines 407-416
RECURSIVE FindPreset(_, _, _)
FindPreset(target, presets, i) ==
    IF i > Len(presets) THEN None
    ELSE IF \E candidate \in {presets[i].id, presets[i].display_name, presets[i].name} :
               normalize_text(candidate) = target
         THEN Some(presets[i])
         ELSE FindPreset(target, presets, i + 1)

get_preset_by_name(name, presets) ==
    IF name = "" THEN None ELSE FindPreset(normalize_text(name), presets, 1)

\* a band of the BandConfigList as configure_eq_bands reads it: a dict
\* whose bandwidth is a quotient
AsBandConfig(band) ==
    IF NaNKeys(band) = {}
    THEN [kind |-> "dict", freq |-> band.freq, bandwidth |-> band.bandwidth,
          gain |-> band.gain, quotient |-> {"bandwidth"}]
    ELSE [kind |-> "dict", freq |-> band.freq, bandwidth |-> band.bandwidth,
          gain |-> band.gain, nan |-> band.nan,
          quotient |-> {"bandwidth"} \ band.nan]

\* lines 449-453: the preset the argument stands for, None when there is none
FoundPreset(preset, presets) ==
    IF preset.t = "str" THEN get_preset_by_name(preset.name, presets)
    ELSE IF preset.t = "dict" THEN Some(preset.preset)
    ELSE None

\* the band list as handed to configure_eq_bands
ConfigsOf(bands) == [i \in 1..Len(bands) |-> AsBandConfig(bands[i])]

\* line 456
Configured(a, configs) == configure_eq_bands(a, IntArg(Len(configs)), configs)

\* what a call leaves and returns: ap is the pipeline afterwards,
\* band_configs the list returned
Outcome(a, applied, band_configs) ==
    [ap |-> a, applied |-> applied, band_configs |-> band_configs]

ApplyConverted_KeepsSwitch(a, band_configs) ==
    Outcome(Configured(a, ConfigsOf(band_configs.bands)), TRUE, band_configs)

\* lines 455-458
ApplyConverted(a, band_configs) ==
    Outcome(set_eq_enabled(Configured(a, ConfigsOf(band_configs.bands)), TRUE), TRUE,
            band_configs)

\* lines 453-458
ApplyFound(a, found) ==
    IF found = None THEN Outcome(a, FALSE, collect_gstreamer_bands(<<>>))
    ELSE ApplyConverted(a, convert_opra_to_gstreamer(Val(found)))

apply_preset_to_pipeline_KeepsSwitch(a, preset, presets) ==
    IF FoundPreset(preset, presets) = None THEN ApplyFound(a, None)
    ELSE ApplyConverted_KeepsSwitch(a, convert_opra_to_gstreamer(Val(FoundPreset(preset, presets))))

\* lines 448-458
apply_preset_to_pipeline(a, preset, presets) == ApplyFound(a, FoundPreset(preset, presets))

Preset(id, display_name, name, filters) ==
    [kind |-> "dict", id |-> id, display_name |-> display_name, name |-> name,
     filters |-> [t |-> "list", v |-> filters]]

\* two filters, both converted; three filters of which one is dropped and
\* one is clamped; and a preset none of whose filters is converted
ApplyPresets ==
    << Preset("P1", "Acme HD 650", "HD 650",
              << Filter("peaking", Num(1000), Num(3), Num(10)),
                 Filter("lowshelf", Num(100), Num(-6), Missing) >>),
       Preset("P2", "Other", "Other",
              << Filter("peaking", Num(30000), Num(50), Num(7)),
                 Filter("peaking", Num(100), Missing, Num(10)),
                 Filter("peaking", Num(200), Num(-2), Num(14)) >>),
       Preset("P3", "Empty", "Empty", << Filter("peaking", Num(100), Num(1), Num(0)) >>) >>

ApplyArgs ==
    { [t |-> "none"], [t |-> "other"] }
    \cup { [t |-> "str", name |-> n] : n \in {"", " ", "nope", " HD 650 ", "Acme HD 650",
                                          "p2", "P3"} }
    \cup { [t |-> "dict", preset |-> ApplyPresets[i]] : i \in 1..Len(ApplyPresets) }

\* the call returns r
ApplyPresetReturns(preset, r) ==
    /\ ap' = r.ap
    /\ lastOp' = [op |-> "apply_preset_to_pipeline", preset |-> preset,
                  applied |-> r.applied, band_configs |-> r.band_configs]
    /\ trip' = IF r.applied
               THEN TripEnabled([stage |-> 1, num |-> r.ap.eq_num_bands,
                                 configs |-> r.ap.eq_band_configs], TRUE)
               ELSE trip
    /\ eq_snapshot' = AfterRebind(eq_snapshot, r.applied)
    /\ AppUnchanged

ApplyPresetToPipeline ==
    \E preset \in ApplyArgs :
        ApplyPresetReturns(preset, apply_preset_to_pipeline(ap, preset, ApplyPresets))

NextPreset ==
    \/ ApplyPresetToPipeline
    \/ SetEqEnabled(BOOLEAN)
    \/ CreatePipeline(Formats, {FALSE}, {<<>>}, EqAvail, {30}, {FALSE})
    \/ DestroyPipeline

SpecPreset == Init /\ [][NextPreset]_vars

EqualizerState(a) == get_eq_state(a).state

\* C37: apply_preset_to_pipeline with a preset that converts to k bands,
\* 1 <= k <= 64, leaves the equalizer enabled with num_bands = k and
\* band_configs the converted list, band by band; with a preset that is
\* None, of another type or a name no preset has, it leaves the
\* EqualizerState as it was and returns an empty list.
C37_ApplyPresetRefinesConfigure ==
    [][ lastOp'.op = "apply_preset_to_pipeline"
        => LET bands == lastOp'.band_configs.bands
               k == Len(bands)
               st == EqualizerState(ap')
               unknown == \/ lastOp'.preset.t \in {"none", "other"}
                          \/ /\ lastOp'.preset.t = "str"
                             /\ lastOp'.preset.name \in {"", " ", "nope"}
           IN  /\ (~unknown /\ 1 <= k /\ k <= 64)
                  => /\ st.enabled = TRUE
                     /\ st.num_bands = k
                     /\ Len(st.band_configs) = k
                     /\ \A i \in 1..k :
                           /\ st.band_configs[i].freq = bands[i].freq
                           /\ st.band_configs[i].bandwidth = bands[i].bandwidth
                           /\ st.band_configs[i].gain = bands[i].gain
               /\ unknown
                  => /\ EqualizerState(ap') = EqualizerState(ap)
                     /\ bands = <<>> ]_vars

\* the preset found by its name, given with blanks around it: its two
\* bands, the second from a shelf without Q, are stored and switched on
C37_Witness ==
    /\ lastOp.op = "apply_preset_to_pipeline"
    /\ lastOp.preset = [t |-> "str", name |-> " HD 650 "]
    /\ ap.eq_enabled
    /\ ap.eq_num_bands = 2
    /\ Len(ap.eq_band_configs) = 2
    /\ ap.eq_band_configs[2].freq = 100
    /\ ap.eq_band_configs[2].bandwidth = [num |-> 1000, den |-> 7]
    /\ ap.eq_band_configs[2].gain = -6

---------------------------------------------------------------------------
(* Claims on flush, under Spec *)

\* the fields flush may write: the timeline, and the queue of the source stage
SameButTimeline(a, b) ==
    /\ [a EXCEPT !.stream_start_ts = None, !.last_pts_ns = None, !.appsrc = None]
       = [b EXCEPT !.stream_start_ts = None, !.last_pts_ns = None, !.appsrc = None]
    /\ IsSet(a.appsrc) = IsSet(b.appsrc)
    /\ IsSet(a.appsrc)
       => /\ Val(a.appsrc).id = Val(b.appsrc).id
          /\ Val(a.appsrc).caps = Val(b.appsrc).caps

\* C16: flush on an Active graph leaves stream_start_ts and last_pts_ns unset
\* and every other field of the object as it was (the graph, source, volume
\* and equalizer handles, stream_format, the byte-width override, volume,
\* mute, the EQ state); flush without a graph changes nothing; a second flush
\* changes nothing more; and the first chunk submitted after a flush has
\* pts 0.
C16_FlushResetsOnlyTimeline ==
    [][ /\ lastOp'.op = "flush"
           => /\ ~is_active(ap) => ap' = ap
              /\ is_active(ap)
                 => /\ ap'.stream_start_ts = None
                    /\ ap'.last_pts_ns = None
                    /\ SameButTimeline(ap', ap)
              /\ flush(ap') = ap'
        /\ (lastOp.op = "flush" /\ lastOp'.op = "push_audio"
            /\ Len(Submitted(ap')) > Len(Submitted(ap)))
           => /\ Submitted(ap')[Len(Submitted(ap'))].pts = 0
              /\ ap'.last_pts_ns = Some(0) ]_vars

\* a flush on an Active graph whose width override shows that a chunk had
\* been submitted and had set the timeline: the timeline is unset again,
\* the override, the format, the volume, the mute and the EQ state are not
C16_Witness ==
    /\ lastOp.op = "flush"
    /\ is_active(ap)
    /\ ap.stream_start_ts = None /\ ap.last_pts_ns = None
    /\ ap.bytes_per_sample_override = Some(4)
    /\ ap.stream_format = Some(PCM(44100, 24, 2))
    /\ Val(ap.appsrc).caps.format = "S24_32LE"
    /\ ap.eq_enabled /\ Len(ap.eq_band_configs) = 2
    /\ ap.volume = 100 /\ ap.muted

---------------------------------------------------------------------------
(* SpecSnap: get_eq_state and what its caller can do with the dict it got: *)
(* write a value of one of the band dicts, or change the list itself.  A   *)
(* write through an object the AudioPipeline also holds is a write to the  *)
(* AudioPipeline.                                                          *)

SnapGains == { 9 }

SnapCounts == { [ok |-> FALSE], IntArg(1), IntArg(2) }

SnapBandLists == { << Band(100, 50, 6), Band(1000, 500, -3) >>, << Band(200, 80, 20) >> }

GetEqState ==
    /\ eq_snapshot' = Some(get_eq_state(ap))
    /\ lastOp' = [op |-> "get_eq_state"]
    /\ UNCHANGED <<ap, trip>>
    /\ AppUnchanged

\* state["band_configs"][i]["gain"] = gain, by the caller
CallerSetsGain ==
    \E gain \in SnapGains :
        /\ IsSet(eq_snapshot)
        /\ LET snap == Val(eq_snapshot)
           IN  \E i \in 1..Len(snap.state.band_configs) :
                 /\ eq_snapshot' =
                      Some([snap EXCEPT !.state.band_configs[i].gain = gain])
                 /\ ap' = IF snap.shared \in {"list", "bands"}
                          THEN [ap EXCEPT !.eq_band_configs[i].gain = gain]
                          ELSE ap
                 /\ lastOp' = [op |-> "caller_sets_gain", index |-> i, gain |-> gain]
        /\ UNCHANGED trip
        /\ AppUnchanged

\* state["band_configs"].clear(), by the caller
CallerClearsList ==
    /\ IsSet(eq_snapshot)
    /\ Val(eq_snapshot).state.band_configs # <<>>
    /\ eq_snapshot' = Some([Val(eq_snapshot) EXCEPT !.state.band_configs = <<>>])
    /\ ap' = IF Val(eq_snapshot).shared = "list"
             THEN [ap EXCEPT !.eq_band_configs = <<>>]
             ELSE ap
    /\ lastOp' = [op |-> "caller_clears_list"]
    /\ UNCHANGED trip
    /\ AppUnchanged

NextSnap ==
    \/ ConfigureEqBands(SnapCounts, SnapBandLists)
    \/ SetEqEnabled(BOOLEAN)
    \/ GetEqState
    \/ CallerSetsGain
    \/ CallerClearsList

SpecSnap == Init /\ [][NextSnap]_vars

\* C17: the dict get_eq_state returns holds the EQ state of that moment; a
\* write by the caller to its band_configs list or to a band dict in it
\* leaves the AudioPipeline as it was; and configure_eq_bands and
\* set_eq_enabled leave a dict returned earlier as it was.
C17_EqStateIsASnapshot ==
    [][ /\ lastOp'.op = "get_eq_state"
           => Val(eq_snapshot').state =
                [enabled |-> ap.eq_enabled, num_bands |-> ap.eq_num_bands,
                 band_configs |-> ap.eq_band_configs]
        /\ lastOp'.op \in {"caller_sets_gain", "caller_clears_list"} => ap' = ap
        /\ (lastOp'.op \in {"configure_eq_bands", "set_eq_enabled"} /\ IsSet(eq_snapshot))
           => Val(eq_snapshot').state = Val(eq_snapshot).state ]_vars

\* the caller has written gain 9 into the first band of a dict it got while
\* two bands were stored; the stored gain is still 6
C17_Witness ==
    /\ lastOp = [op |-> "caller_sets_gain", index |-> 1, gain |-> 9]
    /\ Val(eq_snapshot).state.band_configs[1].gain = 9
    /\ Len(ap.eq_band_configs) = 2
    /\ ap.eq_band_configs[1].gain = 6

---------------------------------------------------------------------------
(* The preset database (music_assistant/eq_presets.py).  A file is the     *)
(* sequence of its lines.  A line is blank, text json.loads rejects, JSON  *)
(* that is no object, bytes that are not UTF-8, or a JSON object with the  *)
(* keys parse_jsonl reads: type ("" when absent), id, name and data.  An   *)
(* id is Str(s), Missing, or Unhashable (a JSON list or object, which no   *)
(* dict takes as a key).  A preset is [id, manufacturer, model], the keys  *)
(* the join fills.                                                         *)

MaxLines == 3

Str(s) == [t |-> "str", v |-> s]

Unhashable == [t |-> "list"]

Truthy(value) == value.t # "none"

BlankLine == [json |-> "blank"]

InvalidJson == [json |-> "invalid"]

NonObject == [json |-> "nonobject"]

BadUtf8 == [json |-> "badutf8"]

Flat(id, name) ==
    [json |-> "object", type |-> "", id |-> Str(id), name |-> Str(name), data |-> Missing]

Vendor(id, name) ==
    [json |-> "object", type |-> "vendor", id |-> id, name |-> Missing,
     data |-> [t |-> "dict", name |-> Str(name)]]

Product(id, name, vendor_id) ==
    [json |-> "object", type |-> "product", id |-> id, name |-> Missing,
     data |-> [t |-> "dict", name |-> Str(name), vendor_id |-> vendor_id]]

EqEntry(id, product_id) ==
    [json |-> "object", type |-> "eq", id |-> Str(id), name |-> Missing,
     data |-> [t |-> "dict", product_id |-> Str(product_id)]]

\* an eq record with details and, under parameters, bands
EqEntryWith(id, product_id, details, bands) ==
    [json |-> "object", type |-> "eq", id |-> Str(id), name |-> Missing,
     data |-> [t |-> "dict", product_id |-> Str(product_id), details |-> Str(details),
               bands |-> bands]]

\* dict.get(key)
Lookup(dict, key) == IF key \in DOMAIN dict THEN Some(dict[key]) ELSE None

\* lines 209-218, on the product ids the exploration uses
split_opra_product_id(product_id) ==
    CASE product_id = "v1::m1" -> <<Some("v1"), Some("m1")>>
      [] product_id = "v2::m2" -> <<Some("v2"), Some("m2")>>
      [] OTHER -> <<None, Some(product_id)>>

(* A filter of a record of the file is a dict with any of the keys          *)
(* _normalize_filter reads (frequency, freq, gain, gain_db, db, Q, q, type,  *)
(* filter_type), or [kind |-> "nondict"].                                    *)

\* dict.get(key) on a filter dict, None as Missing
Get(filter_entry, key) == IF key \in DOMAIN filter_entry THEN filter_entry[key] ELSE Missing

\* bool(value): None and 0 are false, a number other than 0 and a non-empty
\* string are true
PyTruthy(value) == value.t = "str" \/ (value.t = "num" /\ value.v # 0)

\* Python's a or b
OrElse(a, b) == IF PyTruthy(a) THEN a ELSE b

\* a float or None as a value of a dict
AsValue(option) == IF IsSet(option) THEN Num(Val(option)) ELSE Missing

\* lines 173-181; None for an entry that is no dict
normalize_filter(filter_entry) ==
    IF filter_entry.kind # "dict" THEN None
    ELSE Some([ kind |-> "dict",
                frequency |-> AsValue(coerce_float(OrElse(Get(filter_entry, "frequency"),
                                                          Get(filter_entry, "freq")))),
                gain |-> AsValue(coerce_float(OrElse(Get(filter_entry, "gain"),
                                              OrElse(Get(filter_entry, "gain_db"),
                                                     Get(filter_entry, "db"))))),
                Q |-> AsValue(coerce_float(OrElse(Get(filter_entry, "Q"),
                                                  Get(filter_entry, "q")))),
                type |-> IF "type" \in DOMAIN filter_entry /\ filter_entry.type # ""
                         THEN filter_entry.type
                         ELSE IF "filter_type" \in DOMAIN filter_entry
                              THEN filter_entry.filter_type ELSE "" ])

\* lines 197 and 277-280: the entries _normalize_filter returns a dict for
RECURSIVE normalize_filters(_, _)
normalize_filters(filters, i) ==
    IF i > Len(filters) THEN <<>>
    ELSE normalize_filter(filters[i]) \o normalize_filters(filters, i + 1)

\* lines 183-207, for a record with id and name and no manufacturer; filters
\* is there for a record that has a filter list
normalize_preset(entry) ==
    IF "filters" \in DOMAIN entry
    THEN [id |-> entry.id, manufacturer |-> None, model |-> Some(entry.name.v),
          filters |-> normalize_filters(entry.filters, 1)]
    ELSE [id |-> entry.id, manufacturer |-> None, model |-> Some(entry.name.v)]

\* lines 220-227, on the details the exploration uses
clean_opra_details(details) ==
    IF ~Truthy(details) THEN ""
    ELSE CASE details.v = "Measured by oratory1990" -> "oratory1990"
           [] details.v = " harman " -> "harman"
           [] OTHER -> details.v

\* lines 229-237; the name is the sequence of the pieces it is made of.  The
\* names of the exploration have no blanks around them, so strip keeps them
build_opra_display_name(manufacturer, model, details) ==
    LET parts == (IF IsSet(manufacturer) THEN <<Val(manufacturer)>> ELSE <<>>)
                 \o (IF IsSet(model) THEN <<Val(model)>> ELSE <<>>)
        base == IF parts = <<>> THEN <<"Unknown Preset">>
                ELSE IF Len(parts) = 1 THEN parts
                ELSE <<parts[1], " ", parts[2]>>
        detail_text == clean_opra_details(details)
    IN  IF detail_text # "" THEN base \o <<" - ", detail_text>> ELSE base

\* lines 239-294; raised is the exception the lookup at line 260 raises for
\* a vendor id that is no string
normalize_opra_eq_entry(entry, products, vendors) ==
    LET product_id == entry.data.product_id.v
        product == Lookup(products, product_id)
        parsed == split_opra_product_id(product_id)
        product_vendor == IF IsSet(product) /\ Truthy(Val(product).vendor_id)
                          THEN Val(product).vendor_id
                          ELSE IF IsSet(parsed[1]) THEN Str(Val(parsed[1])) ELSE Missing
        product_name == IF IsSet(product) THEN Some(Val(product).name.v) ELSE parsed[2]
        details == IF "details" \in DOMAIN entry.data THEN entry.data.details ELSE Missing
        filters == IF "bands" \in DOMAIN entry.data THEN entry.data.bands ELSE <<>>
    IN  IF product_vendor = Unhashable
        THEN [raised |-> "TypeError"]
        ELSE LET vendor_name == IF Truthy(product_vendor)
                                THEN Lookup(vendors, product_vendor.v) ELSE None
                 manufacturer == IF IsSet(vendor_name) THEN vendor_name
                                 ELSE IF Truthy(product_vendor)
                                      THEN Some(product_vendor.v) ELSE None
             IN  [ raised |-> "",
                   preset |-> [ id |-> entry.id,
                                manufacturer |-> manufacturer,
                                model |-> product_name,
                                display_name |-> build_opra_display_name(
                                                     manufacturer, product_name, details),
                                filters |-> normalize_filters(filters, 1) ] ]

ParseInit ==
    [ presets |-> <<>>, opra_eq_entries |-> <<>>, opra_products |-> <<>>,
      opra_vendors |-> <<>>, raised |-> "" ]

\* lines 329-357: one line of the file
ParseLine(acc, line) ==
    IF acc.raised # "" THEN acc
    ELSE IF line.json = "badutf8" THEN [acc EXCEPT !.raised = "UnicodeDecodeError"]
    ELSE IF line.json \in {"blank", "invalid", "nonobject"} THEN acc
    ELSE IF line.type \in {"vendor", "product", "eq"} /\ line.data.t = "dict"
         THEN IF line.type = "vendor"
              THEN IF ~(Truthy(line.data.name) /\ Truthy(line.id)) THEN acc
                   ELSE IF line.id = Unhashable THEN [acc EXCEPT !.raised = "TypeError"]
                   ELSE [acc EXCEPT !.opra_vendors = (line.id.v :> line.data.name.v) @@ @]
              ELSE IF line.type = "product"
              THEN IF ~Truthy(line.id) THEN acc
                   ELSE IF line.id = Unhashable THEN [acc EXCEPT !.raised = "TypeError"]
                   ELSE [acc EXCEPT !.opra_products = (line.id.v :> line.data) @@ @]
              ELSE [acc EXCEPT !.opra_eq_entries = Append(@, line)]
         ELSE [acc EXCEPT !.presets = Append(@, normalize_preset(line))]

RECURSIVE ParseLines(_, _, _)
ParseLines(lines, i, acc) ==
    IF i > Len(lines) THEN acc ELSE ParseLines(lines, i + 1, ParseLine(acc, lines[i]))

\* lines 360-364: the eq records, joined after the whole file was read
RECURSIVE JoinEqEntries(_, _)
JoinEqEntries(acc, i) ==
    IF acc.raised # "" \/ i > Len(acc.opra_eq_entries) THEN acc
    ELSE LET n == normalize_opra_eq_entry(acc.opra_eq_entries[i], acc.opra_products,
                                          acc.opra_vendors)
         IN  IF n.raised # "" THEN [acc EXCEPT !.raised = n.raised]
             ELSE JoinEqEntries([acc EXCEPT !.presets = Append(@, n.preset)], i + 1)

(* The outcome of a call: raised is the exception that left the function    *)
(* ("" when it returned), presets the list it returned.                     *)
parse_jsonl(lines) ==
    LET acc == JoinEqEntries(ParseLines(lines, 1, ParseInit), 1)
    IN  IF acc.raised # "" THEN [raised |-> acc.raised, presets |-> <<>>]
        ELSE [raised |-> "", presets |-> acc.presets]

---------------------------------------------------------------------------
(* SpecParse: parse_jsonl as a function of the file.  The initial states   *)
(* are the calls, the one action returns.                                  *)

ParseLineKinds ==
    { BlankLine, InvalidJson, NonObject, BadUtf8,
      Flat("A", "a"), Flat("B", "b"),
      Vendor(Str("v1"), "V"), Vendor(Unhashable, "V"),
      Product(Str("v1::m1"), "M", Missing), Product(Str("v2::m2"), "N", Unhashable),
      EqEntry("e1", "v1::m1"), EqEntry("e2", "v2::m2") }

InitParse ==
    /\ ap = AudioPipelineInit
    /\ sendspin_pipeline_teardown_id = None
    /\ glib_sources = {}
    /\ glib_next_id = 1
    /\ trip = TripInit
    /\ eq_snapshot = None
    /\ preset_cache = None
    /\ cache_file = None
    /\ chunk_call = NoCall
    /\ loaders = NoLoaders
    /\ om = OutputManagerInit
    /\ lastOp \in { [op |-> "call_parse", lines |-> l] :
                    l \in ListsUpTo(ParseLineKinds, MaxLines) }

ParseJsonl ==
    /\ lastOp.op = "call_parse"
    /\ lastOp' = [op |-> "parse_jsonl", lines |-> lastOp.lines,
                  result |-> parse_jsonl(lastOp.lines)]
    /\ UNCHANGED <<ap, trip, eq_snapshot>>
    /\ AppUnchanged

SpecParse == InitParse /\ [][ParseJsonl]_vars

\* the ids of the flat preset records of a file, in the file's order
RECURSIVE FlatIds(_, _)
FlatIds(lines, i) ==
    IF i > Len(lines) THEN <<>>
    ELSE (IF lines[i].json = "object" /\ lines[i].type = "" THEN <<lines[i].id>> ELSE <<>>)
         \o FlatIds(lines, i + 1)

\* C19: parse_jsonl returns whatever bad records the file holds: no
\* exception leaves it; a line that is no JSON or no JSON object adds no
\* preset; and every flat preset record of the file, before and after a bad
\* line, is in the returned list, in the file's order.
C19_BadRecordNeverAbortsParse ==
    lastOp.op = "parse_jsonl"
    => LET flat == FlatIds(lastOp.lines, 1)
           presets == lastOp.result.presets
       IN  /\ lastOp.result.raised = ""
           /\ Len(presets) >= Len(flat)
           /\ \A j \in 1..Len(flat) : presets[j].id = flat[j]

---------------------------------------------------------------------------
(* Loading the preset database.  cache_file is None when there is no file  *)
(* at the cache path, else [content, fresh]: its lines, and whether its    *)
(* modification time is less than OPRA_CACHE_EXPIRY_DAYS old.  A call is   *)
(* given what its environment answers during it:                           *)
(*   net      [ok |-> TRUE, payload |-> lines] when urlopen and read       *)
(*            deliver, [ok |-> FALSE] when they raise;                     *)
(*   io       "ok", "open_fails" (open(cache_path, "wb") raises, the file  *)
(*            is as before) or "write_fails" (the file was opened, which   *)
(*            empties it, and the write raises);                           *)
(*   read_ok  whether parse_jsonl can open the file for reading.           *)

is_cache_valid(file) == IsSet(file) /\ Val(file).fresh

\* lines 296-318; path tells whether a path was returned (else None)
fetch_opra_database(file, net, io) ==
    IF is_cache_valid(file) THEN [path |-> TRUE, file |-> file, fetched |-> FALSE]
    ELSE IF net.ok /\ io = "ok"
         THEN [path |-> TRUE, file |-> Some([content |-> net.payload, fresh |-> TRUE]),
               fetched |-> TRUE]
         ELSE LET left == IF net.ok /\ io = "write_fails"
                          THEN Some([content |-> <<>>, fresh |-> TRUE])
                          ELSE file
              IN  [path |-> IsSet(left), file |-> left, fetched |-> TRUE]

\* lines 327-328, 358-359: a file that cannot be opened is read as empty
ParseFile(file, read_ok) ==
    IF read_ok THEN parse_jsonl(Val(file).content) ELSE [raised |-> "", presets |-> <<>>]

\* lines 392-401; result is the outcome of the call, cache and file what it
\* leaves in _preset_cache and at the cache path
load_presets(cache, file, force_reload, net, io, read_ok) ==
    IF IsSet(cache) /\ ~force_reload
    THEN [result |-> [raised |-> "", presets |-> Val(cache)],
          cache |-> cache, file |-> file, fetched |-> FALSE]
    ELSE LET f == fetch_opra_database(file, net, io)
         IN  IF ~f.path
             THEN [result |-> [raised |-> "", presets |-> <<>>],
                   cache |-> cache, file |-> f.file, fetched |-> f.fetched]
             ELSE LET parsed == ParseFile(f.file, read_ok)
                  IN  [result |-> parsed,
                       cache |-> IF parsed.raised = "" THEN Some(parsed.presets) ELSE cache,
                       file |-> f.file, fetched |-> f.fetched]

---------------------------------------------------------------------------
(* SpecLoad: load_presets against a network that delivers or fails, a disk *)
(* that takes the download or not, databases with and without bad records, *)
(* a cache file that grows old, and a cache directory that is cleared.     *)

LoadPayloads ==
    { <<>>,
      << Flat("A", "a") >>,
      << Flat("A", "a"), InvalidJson, Flat("B", "b") >>,
      << Flat("A", "a"), Vendor(Unhashable, "V") >> }

NetAnswers == { [ok |-> FALSE] } \cup { [ok |-> TRUE, payload |-> l] : l \in LoadPayloads }

IoAnswers == { "ok", "open_fails", "write_fails" }

PresetsUnchanged ==
    UNCHANGED <<ap, sendspin_pipeline_teardown_id, glib_sources, glib_next_id, trip,
                eq_snapshot, chunk_call, loaders, om>>

LoadPresets ==
    \E force_reload \in BOOLEAN, net \in NetAnswers, io \in IoAnswers, read_ok \in BOOLEAN :
        LET r == load_presets(preset_cache, cache_file, force_reload, net, io, read_ok)
        IN  /\ preset_cache' = r.cache
            /\ cache_file' = r.file
            /\ lastOp' = [op |-> "load_presets", force_reload |-> force_reload,
                          net |-> net, io |-> io, read_ok |-> read_ok,
                          fetched |-> r.fetched, result |-> r.result]
            /\ PresetsUnchanged

\* time passes: the file is older than the expiry
CacheFileExpires ==
    /\ is_cache_valid(cache_file)
    /\ cache_file' = Some([Val(cache_file) EXCEPT !.fresh = FALSE])
    /\ lastOp' = [op |-> "cache_file_expires"]
    /\ UNCHANGED preset_cache
    /\ PresetsUnchanged

\* the cache directory is cleared
CacheFileRemoved ==
    /\ IsSet(cache_file)
    /\ cache_file' = None
    /\ lastOp' = [op |-> "cache_file_removed"]
    /\ UNCHANGED preset_cache
    /\ PresetsUnchanged

NextLoad ==
    \/ LoadPresets
    \/ CacheFileExpires
    \/ CacheFileRemoved

SpecLoad == Init /\ [][NextLoad]_vars

\* a load that went to the cache file or the network, with a readable file
Loading ==
    /\ lastOp'.op = "load_presets"
    /\ ~(IsSet(preset_cache) /\ ~lastOp'.force_reload)
    /\ lastOp'.read_ok

\* C18: load_presets never raises, and degrades in this order: a fresh cache
\* file is parsed without a fetch; otherwise a fetch is tried, and when it
\* succeeds what it delivered replaces the cache file and is parsed; when the
\* fetch fails an existing (stale) cache file is parsed instead; and with no
\* cache file the result is the empty list and _preset_cache is left as it
\* was.
C18_LoadDegradesAndNeverRaises ==
    [][ /\ lastOp'.op = "load_presets" => lastOp'.result.raised = ""
        /\ Loading =>
             LET net == lastOp'.net
                 presets == lastOp'.result.presets
             IN  /\ is_cache_valid(cache_file)
                    => /\ ~lastOp'.fetched
                       /\ cache_file' = cache_file
                       /\ presets = parse_jsonl(Val(cache_file).content).presets
                 /\ (~is_cache_valid(cache_file) /\ net.ok /\ lastOp'.io = "ok")
                    => /\ lastOp'.fetched
                       /\ cache_file' = Some([content |-> net.payload, fresh |-> TRUE])
                       /\ presets = parse_jsonl(net.payload).presets
                 /\ (~is_cache_valid(cache_file) /\ ~net.ok /\ IsSet(cache_file))
                    => /\ lastOp'.fetched
                       /\ cache_file' = cache_file
                       /\ presets = parse_jsonl(Val(cache_file).content).presets
                 /\ (~is_cache_valid(cache_file) /\ ~net.ok /\ ~IsSet(cache_file))
                    => /\ presets = <<>>
                       /\ preset_cache' = preset_cache
                       /\ cache_file' = None ]_vars

---------------------------------------------------------------------------
(* Further claims on the Timestamp Sequencer (SpecSeq), the audio-chunk    *)
(* handler (SpecApp) and the Equalizer Controller (SpecEq)                 *)

\* the push handed one more buffer to the source stage that was there
Accepted ==
    /\ lastOp'.op = "push_audio"
    /\ IsSet(ap.appsrc)
    /\ Len(Submitted(ap')) = Len(Submitted(ap)) + 1

\* C21: for each accepted chunk, stream_start_ts becomes the chunk's timestamp
\* if it was unset; with raw = max(0, (ts_us - stream_start_ts) * 1000) the
\* emitted pts is last_pts_ns plus the chunk's duration when last_pts_ns is
\* set and raw <= last_pts_ns, and raw otherwise; last_pts_ns becomes the
\* emitted pts and dts equals pts; the first chunk after a reset has pts 0.
C21_PtsFormula ==
    [][ Accepted =>
          LET ts == lastOp'.timestamp_us
              start == IF ap.stream_start_ts = None THEN ts ELSE Val(ap.stream_start_ts)
              raw == Max(0, (ts - start) * 1000)
              b == Submitted(ap')[Len(Submitted(ap'))]
          IN  /\ ap'.stream_start_ts = Some(start)
              /\ b.pts = IF IsSet(ap.last_pts_ns) /\ raw <= Val(ap.last_pts_ns)
                         THEN Val(ap.last_pts_ns) + b.duration
                         ELSE raw
              /\ ap'.last_pts_ns = Some(b.pts)
              /\ b.dts = b.pts
              /\ (ap.stream_start_ts = None /\ ap.last_pts_ns = None) => b.pts = 0 ]_vars

\* the first chunk at pts 0, then a chunk with the same timestamp, moved one
\* chunk duration on
C21_Witness ==
    /\ lastOp.op = "push_audio"
    /\ Len(Submitted(ap)) = 2
    /\ lastOp.timestamp_us = Val(ap.stream_start_ts)
    /\ Submitted(ap)[1].pts = 0
    /\ Submitted(ap)[2].duration > 0
    /\ Submitted(ap)[2].pts = Submitted(ap)[2].duration
    /\ Submitted(ap)[2].dts = Submitted(ap)[2].pts
    /\ ap.last_pts_ns = Some(Submitted(ap)[2].pts)

\* C22: while a graph is Active, a chunk is submitted to its source stage
\* only if the chunk's format is the StreamFormat the graph was built for.
C22_ChunkFormatIsStreamFormat ==
    [][ (lastOp'.op = "on_sendspin_audio_chunk" /\ is_active(ap')
         /\ Len(Submitted(ap')) > Len(Submitted(ap)))
        => ap'.stream_format = Some(lastOp'.format_info) ]_vars

\* C23: with the EQ enabled and a graph with an equalizer stage, after
\* configure_eq_bands the gain of every live band i < eq_num_bands is the
\* stored gain of eq_band_configs[i] when that entry exists and 0 otherwise.
C23_LiveGainsAreStoredGains ==
    [][ (lastOp'.op = "configure_eq_bands" /\ lastOp'.num_bands.ok
         /\ ap'.eq_enabled /\ IsSet(ap'.eq_element))
        => /\ Len(LiveBands(ap')) = ap'.eq_num_bands
           /\ \A i \in 1..ap'.eq_num_bands : LiveBands(ap')[i].gain = StoredGain(ap', i) ]_vars

---------------------------------------------------------------------------
(* SpecFilt: the filters of a preset record on their way from the file to  *)
(* the equalizer: parse_jsonl on a file with the one record, then          *)
(* convert_opra_to_gstreamer on the preset it returned.  The filters have  *)
(* values that are 0, values under the alternate keys, missing values, and *)
(* entries that are no dicts.                                              *)

FlatWithFilters(id, name, filters) ==
    [json |-> "object", type |-> "", id |-> Str(id), name |-> Str(name), data |-> Missing,
     filters |-> filters]

FiltEntries ==
    { [kind |-> "nondict"],
      Filter("Peaking", Num(100), Num(3), Num(10)),
      Filter("", Num(1000), Num(0), Num(10)),
      Filter("", Num(0), Num(3), Num(10)),
      Filter("peaking", Num(100), Missing, Num(10)),
      [kind |-> "dict", freq |-> Num(200), gain_db |-> Num(2), q |-> Num(14),
       filter_type |-> "lowshelf"],
      [kind |-> "dict", frequency |-> Num(100), gain |-> Num(0), db |-> Num(5), Q |-> Num(10)] }

InitFilt ==
    /\ ap = AudioPipelineInit
    /\ sendspin_pipeline_teardown_id = None
    /\ glib_sources = {}
    /\ glib_next_id = 1
    /\ trip = TripInit
    /\ eq_snapshot = None
    /\ preset_cache = None
    /\ cache_file = None
    /\ chunk_call = NoCall
    /\ loaders = NoLoaders
    /\ om = OutputManagerInit
    /\ lastOp \in { [op |-> "call_parse_convert", filters |-> l] :
                    l \in ListsUpTo(FiltEntries, MaxFilters) }

ParseThenConvert ==
    /\ lastOp.op = "call_parse_convert"
    /\ LET parsed == parse_jsonl(<< FlatWithFilters("A", "a", lastOp.filters) >>)
           preset == [kind |-> "dict",
                      filters |-> [t |-> "list", v |-> parsed.presets[1].filters]]
       IN  lastOp' = [op |-> "parse_then_convert", filters |-> lastOp.filters,
                      parsed |-> parsed.presets[1].filters,
                      result |-> convert_opra_to_gstreamer(preset)]
    /\ UNCHANGED <<ap, trip, eq_snapshot>>
    /\ AppUnchanged

SpecFilt == InitFilt /\ [][ParseThenConvert]_vars

\* frequency, gain and Q are all there and numbers, and Q > 0
AllNumeric(e) ==
    /\ e.kind = "dict"
    /\ {"frequency", "gain", "Q"} \subseteq DOMAIN e
    /\ e.frequency.t = "num" /\ e.gain.t = "num" /\ e.Q.t = "num"
    /\ e.Q.v > 0

\* C24: a filter of a preset record whose frequency, gain and Q are all
\* present and numeric with Q > 0 (0 included as a gain) yields a band after
\* parse_jsonl and convert_opra_to_gstreamer and is never reported as
\* incomplete: there are at least as many bands as such filters, and when
\* every filter of the record is such a filter nothing is dropped.
C24_NumericFiltersYieldBands ==
    lastOp.op = "parse_then_convert"
    => LET given == lastOp.filters
           r == lastOp.result
       IN  /\ Len(r.bands) >= Cardinality({ i \in 1..Len(given) : AllNumeric(given[i]) })
           /\ (\A i \in 1..Len(given) : AllNumeric(given[i])) => r.dropped_filters = <<>>

---------------------------------------------------------------------------
(* Claims on the shape of a built graph (SpecBuild) *)

\* a create_pipeline call that built a graph
Built == lastOp'.op = "create_pipeline" /\ lastOp'.build_path /\ is_active(ap')

HasStage(a, stage) == \E i \in 1..Len(Val(a.pipeline).stages) : Val(a.pipeline).stages[i] = stage

\* lines 102-105: an output format is negotiated
Negotiates(op) == op.sink_given /\ op.supported # <<>>

Picked(op) == Val(pick_output_format(op.format_info, op.supported))

Native(op) == <<op.format_info.sample_rate, op.format_info.bit_depth>>

\* C25 as claimed: a built graph includes the post-conversion stage only
\* when it includes both a resample stage and an equalizer stage.
C25_PostConvertOnlyWithResample ==
    [][ Built => (HasStage(ap', "post_convert")
                  => HasStage(ap', "audioresample") /\ HasStage(ap', "equalizer")) ]_vars

\* C25 as amended: a built graph includes the post-conversion stage only
\* when it includes both the format-fix stage (an output format was
\* negotiated) and an equalizer stage, with or without a resample stage; a
\* graph built with no negotiated output format has no post-conversion stage.
C25_PostConvertOnlyWithCapsAndEq ==
    [][ Built => /\ HasStage(ap', "post_convert")
                    => /\ HasStage(ap', "capsfilter")
                       /\ HasStage(ap', "equalizer")
                       /\ Negotiates(lastOp')
                 /\ ~Negotiates(lastOp') => ~HasStage(ap', "post_convert") ]_vars

\* a graph for 44100/24 on a device that takes 44100/24: no resample stage,
\* and the post-conversion stage between equalizer and format-fix stage
C25_Witness ==
    /\ lastOp.op = "create_pipeline" /\ lastOp.build_path
    /\ is_active(ap)
    /\ Val(ap.pipeline).stages =
         <<"appsrc", "queue", "audioconvert", "volume", "equalizer", "post_convert",
           "capsfilter", "sink">>

\* C26 as claimed: a built graph includes the format-fix stage only if the
\* negotiated output format differs from the stream's (sample_rate,
\* bit_depth).
C26_CapsOnlyWhenFormatDiffers ==
    [][ Built => (HasStage(ap', "capsfilter")
                  => Negotiates(lastOp') /\ Picked(lastOp') # Native(lastOp')) ]_vars

\* C26 as amended: a built graph includes the format-fix stage if and only
\* if an output format was negotiated, equal to the stream's native format or
\* not, and the stage then fixes the picked rate and depth.
C26_CapsIffNegotiated ==
    [][ Built => /\ HasStage(ap', "capsfilter") <=> Negotiates(lastOp')
                 /\ Negotiates(lastOp')
                    => /\ IsSet(Val(ap'.pipeline).output_caps)
                       /\ Val(Val(ap'.pipeline).output_caps).rate = Picked(lastOp')[1]
                       /\ Val(Val(ap'.pipeline).output_caps).format
                            = get_gst_pcm_format(Picked(lastOp')[2], 0) ]_vars

\* a graph whose format-fix stage fixes the stream's own rate and depth
C26_Witness ==
    /\ lastOp.op = "create_pipeline" /\ lastOp.build_path
    /\ is_active(ap)
    /\ Negotiates(lastOp) /\ Picked(lastOp) = Native(lastOp)
    /\ HasStage(ap, "capsfilter")
    /\ ~HasStage(ap, "audioresample")
    /\ Val(Val(ap.pipeline).output_caps).rate = lastOp.format_info.sample_rate

\* C27: a built graph includes a resample stage if and only if a sink handle
\* was given, the supported list is not empty and the rate of the picked
\* format differs from the stream's sample rate; with no sink handle or an
\* empty list the graph has neither resample nor format-fix stage.
C27_ResampleIffRateDiffers ==
    [][ Built => /\ HasStage(ap', "audioresample")
                    <=> (Negotiates(lastOp')
                         /\ Picked(lastOp')[1] # lastOp'.format_info.sample_rate)
                 /\ ~Negotiates(lastOp')
                    => /\ ~HasStage(ap', "audioresample")
                       /\ ~HasStage(ap', "capsfilter") ]_vars

\* a 44100 Hz stream on a device that takes 48000 Hz only: resample stage
\* and format-fix stage at the end of the chain
C27_Witness ==
    /\ lastOp.op = "create_pipeline" /\ lastOp.build_path
    /\ is_active(ap)
    /\ lastOp.format_info.sample_rate = 44100
    /\ lastOp.supported = << <<48000, 24>> >>
    /\ HasStage(ap, "audioresample")
    /\ Val(Val(ap.pipeline).output_caps).rate = 48000

---------------------------------------------------------------------------
(* Claims on the fields of the object (Spec) and on rejected chunks        *)
(* (SpecSeq)                                                               *)

\* C28: in every reachable state pipeline is set iff the source handle is
\* set iff stream_format is set; without a graph stream_start_ts,
\* last_pts_ns and the byte-width override are unset; last_pts_ns set
\* implies stream_start_ts set; and the override is unset or 4.
C28_GraphFieldsAgree ==
    /\ IsSet(ap.pipeline) <=> IsSet(ap.appsrc)
    /\ IsSet(ap.appsrc) <=> IsSet(ap.stream_format)
    /\ ~IsSet(ap.pipeline)
       => /\ ap.stream_start_ts = None
          /\ ap.last_pts_ns = None
          /\ ap.bytes_per_sample_override = None
    /\ IsSet(ap.last_pts_ns) => IsSet(ap.stream_start_ts)
    /\ ap.bytes_per_sample_override \in {None, Some(4)}

\* the second graph of the object, with timeline and override set by a chunk
C28_Witness ==
    /\ lastOp.op = "push_audio"
    /\ IsSet(ap.pipeline) /\ IsSet(ap.appsrc) /\ IsSet(ap.stream_format)
    /\ Val(ap.pipeline).id = 2
    /\ IsSet(ap.stream_start_ts) /\ IsSet(ap.last_pts_ns)
    /\ ap.bytes_per_sample_override = Some(4)

\* a length that fits no frame size: no multiple of the frame size for 16-
\* and 32-bit, of neither channels*3 nor channels*4 for 24-bit
FitsNoFrame(len, f) ==
    IF f.bit_depth = 24
    THEN len % Packed(f) # 0 /\ len % Aligned(f) # 0
    ELSE len % (f.channels * Max(1, f.bit_depth \div 8)) # 0

\* C29: a chunk that push_audio rejects (no Active graph, or a length that
\* fits no frame size) is not submitted and leaves stream_start_ts,
\* last_pts_ns, the override and the graph as they were: the object after the
\* call is the object before it.
C29_RejectedChunkChangesNothing ==
    [][ (lastOp'.op = "push_audio"
         /\ (~is_active(ap) \/ FitsNoFrame(lastOp'.len, lastOp'.format_info)))
        => ap' = ap ]_vars

\* a 7-byte chunk offered to a graph that has taken one chunk and holds the
\* override: timeline, override and queue are those of the one chunk
C29_Witness ==
    /\ lastOp.op = "push_audio"
    /\ lastOp.len = 7
    /\ lastOp.format_info = PCM(44100, 24, 2)
    /\ is_active(ap)
    /\ Len(Submitted(ap)) = 1
    /\ Submitted(ap)[1].size = 16
    /\ ap.last_pts_ns = Some(0)
    /\ ap.bytes_per_sample_override = Some(4)

---------------------------------------------------------------------------
(* SpecRun: a running graph whose stages report errors.  The bus delivers  *)
(* error, warning and other messages to _on_bus_message, and the source    *)
(* stage answers a push-buffer with a flow result.  Here the buffers of    *)
(* the source stage are the push-buffer emissions in order; one the stage  *)
(* did not answer OK for carries the answer in a field result.             *)

on_bus_message_TearsDownOnError(a, msg_type) ==
    IF msg_type = "ERROR" THEN destroy_pipeline(a) ELSE a

\* lines 398-415: errors and warnings are logged, other messages ignored
on_bus_message(a, msg_type) == a

FlowResults == { "OK", "FLUSHING", "ERROR" }

\* lines 326-328: the result of the emit is compared with OK and logged
push_buffer_result(before, pushed, result) ==
    IF result = "OK" \/ ~IsSet(pushed.appsrc) \/ Submitted(pushed) = Submitted(before)
    THEN pushed
    ELSE LET buffers == Val(pushed.appsrc).buffers
             last == buffers[Len(buffers)]
         IN  [pushed EXCEPT !.appsrc =
                Some([Val(pushed.appsrc) EXCEPT !.buffers =
                        [buffers EXCEPT ![Len(buffers)] =
                            [pts |-> last.pts, dts |-> last.dts, duration |-> last.duration,
                             size |-> last.size, result |-> result]]])]

PushAudioResult(Stamps, Lens, Fs, limit) ==
    \E ts \in Stamps, len \in Lens, f \in Fs, result \in FlowResults :
        /\ RoomForChunk(ap, limit)
        /\ ap' = push_buffer_result(ap, push_audio(ap, ts, len, f), result)
        /\ lastOp' = [op |-> "push_audio", timestamp_us |-> ts, len |-> len,
                      format_info |-> f, result |-> result]
        /\ UNCHANGED <<trip, eq_snapshot>>
        /\ AppUnchanged

OnBusMessage ==
    \E msg_type \in { "ERROR", "WARNING", "EOS" } :
        /\ IsSet(ap.bus)
        /\ ap' = on_bus_message(ap, msg_type)
        /\ lastOp' = [op |-> "on_bus_message", msg_type |-> msg_type]
        /\ UNCHANGED <<trip, eq_snapshot>>
        /\ AppUnchanged

NextRun ==
    \/ CreatePipeline(Formats, {FALSE}, {<<>>}, {Stages}, {30}, {FALSE})
    \/ PushAudioResult(LifeStamps, {7, 16}, Formats, LifeChunks)
    \/ OnBusMessage
    \/ Flush

SpecRun == Init /\ [][NextRun]_vars

\* C30: an error or warning message from the bus changes no field of the
\* object; and a chunk whose submission is answered other than OK leaves the
\* graph Active, the same graph with the same stream_format, while the
\* timeline advances by that chunk: last_pts_ns is set and past its old value.
C30_RuntimeErrorsKeepGraph ==
    [][ /\ lastOp'.op = "on_bus_message" => ap' = ap
        /\ (lastOp'.op = "push_audio" /\ lastOp'.result # "OK" /\ is_active(ap)
            /\ ~FitsNoFrame(lastOp'.len, lastOp'.format_info))
           => /\ is_active(ap')
              /\ Val(ap'.pipeline).id = Val(ap.pipeline).id
              /\ ap'.stream_format = ap.stream_format
              /\ IsSet(ap'.stream_start_ts)
              /\ IsSet(ap'.last_pts_ns)
              /\ IsSet(ap.last_pts_ns) => Val(ap'.last_pts_ns) > Val(ap.last_pts_ns) ]_vars

\* an error message on the bus of a graph whose source stage has refused the
\* second of two chunks: the graph is there, the timeline past the first chunk
C30_Witness ==
    /\ lastOp = [op |-> "on_bus_message", msg_type |-> "ERROR"]
    /\ is_active(ap)
    /\ Len(Submitted(ap)) = 2
    /\ "result" \in DOMAIN Submitted(ap)[2]
    /\ "result" \notin DOMAIN Submitted(ap)[1]
    /\ ap.last_pts_ns = Some(Submitted(ap)[2].pts)
    /\ Submitted(ap)[2].pts > Submitted(ap)[1].pts

---------------------------------------------------------------------------
(* SpecThreads: load_presets run by the loader threads that                *)
(* navigate_to_eq_settings starts, one statement at a time.  A thread's    *)
(* entry of loaders is where it stands: "load" (started), "fetch",         *)
(* "download", "open" (holding the payload), "write" (the file opened for  *)
(* writing, which has emptied it), "parse", "store" (holding the parsed    *)
(* presets), and "idle" once it has ended.                                 *)

LoaderUnchanged ==
    UNCHANGED <<ap, sendspin_pipeline_teardown_id, glib_sources, glib_next_id, trip,
                eq_snapshot, chunk_call, om>>

At(t, pc) == loaders[t].pc = pc

Goto(t, entry) == loaders' = [loaders EXCEPT ![t] = entry]

\* lines 313-318: after a failed download the old file, if any, is used
Fallback(file) == IF IsSet(file) THEN [pc |-> "parse"] ELSE [pc |-> "idle"]

\* settings_panel.py lines 388-391
LoaderStart(t) ==
    /\ At(t, "idle")
    /\ Goto(t, [pc |-> "load"])
    /\ lastOp' = [op |-> "loader_start", thread |-> t]
    /\ UNCHANGED <<preset_cache, cache_file>>
    /\ LoaderUnchanged

\* lines 393-395
LoaderReadCache(t) ==
    /\ At(t, "load")
    /\ Goto(t, IF IsSet(preset_cache) THEN [pc |-> "idle"] ELSE [pc |-> "fetch"])
    /\ lastOp' = [op |-> "loader_read_cache", thread |-> t, hit |-> IsSet(preset_cache)]
    /\ UNCHANGED <<preset_cache, cache_file>>
    /\ LoaderUnchanged

\* lines 303-304
LoaderCheckFile(t) ==
    /\ At(t, "fetch")
    /\ Goto(t, IF is_cache_valid(cache_file) THEN [pc |-> "parse"] ELSE [pc |-> "download"])
    /\ lastOp' = [op |-> "loader_check_file", thread |-> t,
                  valid |-> is_cache_valid(cache_file)]
    /\ UNCHANGED <<preset_cache, cache_file>>
    /\ LoaderUnchanged

\* lines 305-308
LoaderDownload(t) ==
    \E net \in NetAnswers :
        /\ At(t, "download")
        /\ Goto(t, IF net.ok THEN [pc |-> "open", payload |-> net.payload]
                   ELSE Fallback(cache_file))
        /\ lastOp' = [op |-> "loader_download", thread |-> t, ok |-> net.ok]
        /\ UNCHANGED <<preset_cache, cache_file>>
        /\ LoaderUnchanged

\* line 309: open(cache_path, "wb")
LoaderOpenFile(t) ==
    \E ok \in BOOLEAN :
        /\ At(t, "open")
        /\ cache_file' = IF ok THEN Some([content |-> <<>>, fresh |-> TRUE]) ELSE cache_file
        /\ Goto(t, IF ok THEN [pc |-> "write", payload |-> loaders[t].payload]
                   ELSE Fallback(cache_file))
        /\ lastOp' = [op |-> "loader_open_file", thread |-> t, ok |-> ok,
                      others_writing |-> { u \in LoaderThreads \ {t} : At(u, "write") }]
        /\ UNCHANGED preset_cache
        /\ LoaderUnchanged

\* lines 310-312
LoaderWriteFile(t) ==
    \E ok \in BOOLEAN :
        /\ At(t, "write")
        /\ cache_file' = IF ok THEN Some([content |-> loaders[t].payload, fresh |-> TRUE])
                         ELSE cache_file
        /\ Goto(t, IF ok THEN [pc |-> "parse"] ELSE Fallback(cache_file))
        /\ lastOp' = [op |-> "loader_write_file", thread |-> t, ok |-> ok]
        /\ UNCHANGED preset_cache
        /\ LoaderUnchanged

\* line 398: parse_jsonl reads the file as it is now; an exception of
\* parse_jsonl ends the thread in _refresh_eq_presets_on_open
LoaderParse(t) ==
    \E read_ok \in BOOLEAN :
        LET parsed == ParseFile(cache_file, read_ok /\ IsSet(cache_file))
        IN  /\ At(t, "parse")
            /\ Goto(t, IF parsed.raised = "" THEN [pc |-> "store", presets |-> parsed.presets]
                       ELSE [pc |-> "idle"])
            /\ lastOp' = [op |-> "loader_parse", thread |-> t, read_ok |-> read_ok,
                          raised |-> parsed.raised,
                          others_writing |-> { u \in LoaderThreads \ {t} : At(u, "write") }]
            /\ UNCHANGED <<preset_cache, cache_file>>
            /\ LoaderUnchanged

\* lines 399-400
LoaderStore(t) ==
    /\ At(t, "store")
    /\ preset_cache' = Some(loaders[t].presets)
    /\ Goto(t, [pc |-> "idle"])
    /\ lastOp' = [op |-> "loader_store", thread |-> t,
                  others_storing |-> { u \in LoaderThreads \ {t} : At(u, "store") }]
    /\ UNCHANGED cache_file
    /\ LoaderUnchanged

NextThreads ==
    \/ \E t \in LoaderThreads : LoaderStart(t)
    \/ \E t \in LoaderThreads : LoaderReadCache(t)
    \/ \E t \in LoaderThreads : LoaderCheckFile(t)
    \/ \E t \in LoaderThreads : LoaderDownload(t)
    \/ \E t \in LoaderThreads : LoaderOpenFile(t)
    \/ \E t \in LoaderThreads : LoaderWriteFile(t)
    \/ \E t \in LoaderThreads : LoaderParse(t)
    \/ \E t \in LoaderThreads : LoaderStore(t)
    \/ CacheFileExpires

SpecThreads == Init /\ [][NextThreads]_vars

\* the statements from the download to the end of the write
Downloading(t) == loaders[t].pc \in {"download", "open", "write"}

\* C32: concurrent load_presets calls are serialized: no two threads are
\* between the start of the download and the end of the write at the same
\* time, no thread opens or parses the cache file while another has it
\* open for writing, and no two threads hold a parsed list to store in the
\* in-memory cache at the same time.
C32_LoadsAreSerialized ==
    [][ /\ \A t, u \in LoaderThreads : (t # u) => ~(Downloading(t)' /\ Downloading(u)')
        /\ lastOp'.op \in {"loader_open_file", "loader_parse"} => lastOp'.others_writing = {}
        /\ lastOp'.op = "loader_store" => lastOp'.others_storing = {} ]_vars

---------------------------------------------------------------------------
(* SpecOutputs: the refresh of the output targets.  A load worker is a     *)
(* thread running _load_output_targets_worker; what it fetched is an       *)
(* error, or the list of players, which populate_output_targets turns into *)
(* the output targets (a player is its name here, a target its player).    *)
(* Each call is taken whole.                                               *)

\* lines 777-781
set_loading_state(o, loading, message) ==
    [o EXCEPT !.output_loading = loading, !.status_message = message]

\* lines 138-149, as far as the list of targets goes
populate_output_targets(o, players) == [o EXCEPT !.output_targets = players]

\* lines 95-98; server_url tells whether _get_server_url() returns one
refresh(o, server_url) ==
    IF o.output_loading THEN [o EXCEPT !.refresh_after_load = TRUE]
    ELSE IF ~server_url
    THEN populate_output_targets(
           set_loading_state(o, FALSE,
                             "Connect to your Music Assistant server to see outputs."),
           <<>>)
    ELSE [set_loading_state(o, TRUE, "Loading outputs...") EXCEPT !.workers = @ + 1]

\* f"Unable to load outputs: {error}", on the errors the exploration uses
UnableToLoad(error) ==
    CASE error = "timeout" -> "Unable to load outputs: timeout"
      [] error = "refused" -> "Unable to load outputs: refused"
      [] OTHER -> "Unable to load outputs: "

\* lines 130-136
on_output_targets_loaded(o, players, error, server_url) ==
    IF error # ""
    THEN set_loading_state(populate_output_targets(o, <<>>), FALSE, UnableToLoad(error))
    ELSE LET shown == set_loading_state(populate_output_targets(o, players), FALSE,
                        IF players # <<>> THEN "" ELSE "No outputs available.")
         IN  IF shown.refresh_after_load
             THEN refresh([shown EXCEPT !.refresh_after_load = FALSE], server_url)
             ELSE shown

OutputsUnchanged ==
    UNCHANGED <<ap, sendspin_pipeline_teardown_id, glib_sources, glib_next_id, trip,
                eq_snapshot, preset_cache, cache_file, chunk_call, loaders>>

Refresh ==
    \E server_url \in BOOLEAN :
        /\ om' = refresh(om, server_url)
        /\ lastOp' = [op |-> "refresh", server_url |-> server_url]
        /\ OutputsUnchanged

\* lines 89-91
ScheduleRefresh ==
    /\ om' = IF om.refresh_pending THEN om ELSE [om EXCEPT !.refresh_pending = TRUE]
    /\ lastOp' = [op |-> "schedule_refresh", started_timer |-> ~om.refresh_pending]
    /\ OutputsUnchanged

\* line 93: the timer of schedule_refresh fires
HandleScheduledRefresh ==
    \E server_url \in BOOLEAN :
        /\ om.refresh_pending
        /\ om' = refresh([om EXCEPT !.refresh_pending = FALSE], server_url)
        /\ lastOp' = [op |-> "handle_scheduled_refresh", server_url |-> server_url]
        /\ OutputsUnchanged

LoadOutcomes ==
    { [players |-> <<>>, error |-> "timeout"],
      [players |-> <<>>, error |-> "refused"],
      [players |-> <<>>, error |-> ""],
      [players |-> <<"Kitchen">>, error |-> ""],
      [players |-> <<"Kitchen", "Office">>, error |-> ""] }

\* lines 100-113: a load worker ends, handing over what it fetched
LoadOutputTargetsWorker ==
    \E outcome \in LoadOutcomes, server_url \in BOOLEAN :
        /\ om.workers > 0
        /\ om' = on_output_targets_loaded([om EXCEPT !.workers = @ - 1],
                                          outcome.players, outcome.error, server_url)
        /\ lastOp' = [op |-> "load_output_targets_worker", outcome |-> outcome,
                      server_url |-> server_url]
        /\ OutputsUnchanged

NextOutputs ==
    \/ Refresh
    \/ ScheduleRefresh
    \/ HandleScheduledRefresh
    \/ LoadOutputTargetsWorker

SpecOutputs == Init /\ [][NextOutputs]_vars

\* C40: a refresh called while a load is in progress starts no worker and
\* is remembered; when the load completes, with players or with an error,
\* a remembered refresh is started, once: it is no longer remembered and,
\* with a server to ask, one worker is loading again; and at most one
\* load worker runs at a time.
C40_DeferredRefreshRunsAfterLoad ==
    [][ /\ (lastOp'.op \in {"refresh", "handle_scheduled_refresh"} /\ om.output_loading)
           => /\ om'.refresh_after_load
              /\ om'.workers = om.workers
        /\ (lastOp'.op = "load_output_targets_worker" /\ om.refresh_after_load)
           => /\ ~om'.refresh_after_load
              /\ lastOp'.server_url => (om'.workers = 1 /\ om'.output_loading)
        /\ om'.workers <= 1 ]_vars

---------------------------------------------------------------------------
(* SpecName: the display name of a preset record of the flat schema.  A    *)
(* text is the sequence of its characters, so that strip, lower, join and  *)
(* "in" are computed as Python computes them; a value of a record is       *)
(* Missing (None, or no such key) or Str(text).  The initial states are    *)
(* the calls, the one action returns.                                      *)

Text_My == <<"M", "y">>

Text_Ab == <<"A", "b">>

Text_X1 == <<"X", "1">>

Text_ab == <<"a", "b">>

Text_Zed == <<"Z", "e", "d">>

Blank == <<" ">>

UnknownPreset == <<"U", "n", "k", "n", "o", "w", "n", " ", "P", "r", "e", "s", "e", "t">>

\* str.lower() of a character
LowerChar(c) ==
    CASE c = "A" -> "a" [] c = "M" -> "m" [] c = "X" -> "x" [] c = "Z" -> "z"
      [] c = "U" -> "u" [] c = "P" -> "p" [] OTHER -> c

lower(text) == [i \in 1..Len(text) |-> LowerChar(text[i])]

RECURSIVE lstrip(_)
lstrip(text) ==
    IF text # <<>> /\ Head(text) = " " THEN lstrip(Tail(text)) ELSE text

RECURSIVE rstrip(_)
rstrip(text) ==
    IF text # <<>> /\ text[Len(text)] = " " THEN rstrip(SubSeq(text, 1, Len(text) - 1))
    ELSE text

\* str.strip()
strip(text) == rstrip(lstrip(text))

\* Python's sub in text
Contains(sub, text) ==
    \E i \in 0..(Len(text) - Len(sub)) : SubSeq(text, i + 1, i + Len(sub)) = sub

\* bool(value) of None or a string
TruthyText(value) == value.t = "str" /\ value.v # <<>>

\* lines 66-67 on None or a string, which str.lower leaves stripped
normalize_chars(value) == IF value.t = "none" THEN <<>> ELSE lower(strip(value.v))

\* lines 77-83
RECURSIVE first_of(_, _, _)
first_of(payload, keys, i) ==
    IF i > Len(keys) THEN Missing
    ELSE LET value == Get(payload, keys[i])
         IN  IF value.t = "none" \/ (value.t = "str" /\ strip(value.v) = <<>>)
             THEN first_of(payload, keys, i + 1)
             ELSE value

\* " ".join(dict.fromkeys(part for part in parts if part))
JoinDistinct(parts) ==
    LET kept == SelectSeq(parts, LAMBDA part : part # <<>>)
    IN  IF kept = <<>> THEN <<>>
        ELSE IF Len(kept) = 1 \/ kept[1] = kept[2] THEN kept[1]
        ELSE kept[1] \o <<" ">> \o kept[2]

\* lines 85-96
build_display_name(name, manufacturer, model, creator) ==
    LET stripped == IF TruthyText(name) THEN strip(name.v) ELSE <<>>
        parts == (IF TruthyText(manufacturer) THEN <<strip(manufacturer.v)>> ELSE <<>>)
                 \o (IF TruthyText(model) THEN <<strip(model.v)>> ELSE <<>>)
        joined == IF stripped # <<>> THEN stripped ELSE JoinDistinct(parts)
        base_name == IF joined # <<>> THEN joined ELSE UnknownPreset
        creator_value == IF TruthyText(creator) THEN strip(creator.v) ELSE <<>>
    IN  IF creator_value # <<>>
           /\ ~Contains(normalize_chars(Str(creator_value)), normalize_chars(Str(base_name)))
        THEN base_name \o <<" ", "-", " ">> \o creator_value
        ELSE base_name

\* lines 184-187 and 191: the display name _normalize_preset gives a record
preset_display_name(entry) ==
    LET name == first_of(entry, <<"name", "title">>, 1)
        manufacturer == first_of(entry, <<"manufacturer", "brand", "vendor", "make">>, 1)
        model == first_of(entry, <<"model", "device", "product">>, 1)
        creator == first_of(entry, <<"creator", "author", "source">>, 1)
    IN  build_display_name(IF TruthyText(name) THEN name ELSE model,
                           manufacturer, model, creator)

NameEntries ==
    { [name |-> n, manufacturer |-> m, model |-> d, creator |-> c] :
        n \in {Missing, Str(Blank), Str(Text_My)},
        m \in {Missing, Str(Blank), Str(Text_Ab), Str(Text_X1)},
        d \in {Missing, Str(Text_X1), Str(<<" ">> \o Text_X1)},
        c \in {Missing, Str(Text_ab), Str(Text_Zed)} }

InitName ==
    /\ ap = AudioPipelineInit
    /\ sendspin_pipeline_teardown_id = None
    /\ glib_sources = {}
    /\ glib_next_id = 1
    /\ trip = TripInit
    /\ eq_snapshot = None
    /\ preset_cache = None
    /\ cache_file = None
    /\ chunk_call = NoCall
    /\ loaders = NoLoaders
    /\ om = OutputManagerInit
    /\ lastOp \in { [op |-> "call_normalize_preset", entry |-> e] : e \in NameEntries }

NormalizePreset ==
    /\ lastOp.op = "call_normalize_preset"
    /\ lastOp' = [op |-> "normalize_preset", entry |-> lastOp.entry,
                  display_name |-> preset_display_name(lastOp.entry)]
    /\ UNCHANGED <<ap, trip, eq_snapshot>>
    /\ AppUnchanged

SpecName == InitName /\ [][NormalizePreset]_vars

\* the text of a value that is there: not None and not blank
Present(value) == value.t = "str" /\ strip(value.v) # <<>>

\* C38: the display name of a normalized flat-schema preset starts with
\* manufacturer and model combined whenever either is present, with the raw
\* name only when both are absent, and with the placeholder when all three
\* are absent; what follows is nothing or the creator suffix.
C38_DisplayNameFromManufacturerAndModel ==
    lastOp.op = "normalize_preset"
    => LET e == lastOp.entry
           base == IF Present(e.manufacturer) /\ Present(e.model)
                   THEN JoinDistinct(<<strip(e.manufacturer.v), strip(e.model.v)>>)
                   ELSE IF Present(e.manufacturer) THEN strip(e.manufacturer.v)
                   ELSE IF Present(e.model) THEN strip(e.model.v)
                   ELSE IF Present(e.name) THEN strip(e.name.v)
                   ELSE UnknownPreset
       IN  \/ lastOp.display_name = base
           \/ /\ Present(e.creator)
              /\ lastOp.display_name = base \o <<" ", "-", " ">> \o strip(e.creator.v)

---------------------------------------------------------------------------
(* SpecJoin: parse_jsonl on files of vendor, product and eq records: two   *)
(* vendors under one id, products with the vendor id absent, given and     *)
(* unhashable, an eq record of each product, one with details and bands.   *)

JoinLineKinds ==
    { Vendor(Str("v1"), "V"), Vendor(Str("v1"), "W"), Vendor(Unhashable, "V"),
      Product(Str("v1::m1"), "M", Missing), Product(Str("v2::m2"), "N", Str("v1")),
      Product(Str("v2::m2"), "N", Unhashable),
      EqEntry("e1", "v1::m1"),
      EqEntryWith("e2", "v2::m2", "Measured by oratory1990",
                  << Filter("Peaking", Num(100), Num(3), Num(10)), [kind |-> "nondict"] >>) }

InitJoin ==
    /\ ap = AudioPipelineInit
    /\ sendspin_pipeline_teardown_id = None
    /\ glib_sources = {}
    /\ glib_next_id = 1
    /\ trip = TripInit
    /\ eq_snapshot = None
    /\ preset_cache = None
    /\ cache_file = None
    /\ chunk_call = NoCall
    /\ loaders = NoLoaders
    /\ om = OutputManagerInit
    /\ lastOp \in { [op |-> "call_parse", lines |-> l] :
                    l \in ListsUpTo(JoinLineKinds, MaxLines) }

SpecJoin == InitJoin /\ [][ParseJsonl]_vars

IsEqRecord(line) == line.type = "eq"

IsMapRecord(line) == line.type \in {"vendor", "product"}

\* the files with the same eq records in the same order and the same vendor
\* and product records in the same order, the ones placed anywhere among
\* the others
Rearrangements(lines) ==
    { l \in Reorderings(lines) :
        /\ SelectSeq(l, IsEqRecord) = SelectSeq(lines, IsEqRecord)
        /\ SelectSeq(l, IsMapRecord) = SelectSeq(lines, IsMapRecord) }

\* C39: the join does not depend on where the vendor and product records
\* stand among the eq records: every such rearrangement of the file gives
\* the same presets (manufacturer, model, display name, filters); and each
\* eq record yields exactly one preset, in the file's order.
C39_JoinIgnoresRecordOrder ==
    lastOp.op = "parse_jsonl"
    => LET eqs == SelectSeq(lastOp.lines, IsEqRecord)
           presets == IF lastOp.result.raised = "" THEN lastOp.result.presets ELSE <<>>
       IN  /\ \A l \in Rearrangements(lastOp.lines) : parse_jsonl(l) = lastOp.result
           /\ Len(presets) = Len(eqs)
           /\ \A j \in 1..Len(eqs) : presets[j].id = eqs[j].id

====
